---- MODULE Spec2Model ----
(***************************************************************************)
(* A model of slack-paper-bot: the Slack webhook handler of src/main.py    *)
(* (slack_events), the request authenticator and the event deduplicator of *)
(* src/modules/slack_handler.py, and the background PDF job of src/main.py *)
(* (process_pdf_sync).                                                     *)
(*                                                                         *)
(* Python values are modelled as follows.  None is the string "None".  A  *)
(* call either returns or raises: Returned(v) / Raised(exception name).    *)
(* Header strings, bodies and JSON texts are records that keep exactly the *)
(* features the code inspects (see each constructor).                      *)
(***************************************************************************)
EXTENDS Integers, Sequences, FiniteSets, TLC

VARIABLES
    now,                \* time.time() as read by verify_request (whole seconds)
    processed_events,   \* SlackHandler._processed_events
    bot_user_id,        \* SlackHandler.bot_user_id
    request,            \* the webhook request handled last (headers and body)
    response,           \* the HTTP response given to it
    effects,            \* what that handler run did: Slack calls, dedup insert, enqueue
    jobs,               \* ProcessingJobs handed to the executor, in submission order
    job_run,            \* the calls made by the job that finished last
    verify_result,      \* the outcome of the last direct verify_request call
    dedup_call,         \* the last should_process_event call and its outcome
    cache,              \* the files of the summarizer's cache directory
    detail_level,       \* PaperSummarizer.detail_level
    summarize_call,     \* the last direct summarize call and its outcome
    model_name,         \* PaperSummarizer.model_name
    level_call,         \* the last set_detail_level call and its outcome
    post_call,          \* the last direct post_thread_reply call and its outcome
    format_call,        \* the last format_summary_blocks call and its blocks
    entry_file,         \* one cache file as concurrent summarize calls see it
    threads             \* the position of each concurrent summarize call

vars == <<now, processed_events, bot_user_id, request, response, effects, jobs,
          job_run, verify_result, dedup_call, cache, detail_level, summarize_call,
          model_name, level_call, post_call, format_call, entry_file, threads>>

\* The state only the directly called operations touch.
direct_vars == <<model_name, level_call, post_call, format_call, entry_file, threads>>

None == "None"

Returned(v) == [raised |-> None, value |-> v]
Raised(e) == [raised |-> e, value |-> FALSE]

Abs(x) == IF x < 0 THEN -x ELSE x

(***************************************************************************)
(* Request authenticator: SlackHandler.verify_request                      *)
(***************************************************************************)

\* abs(time.time() - ts) > 300
ReplayWindow == 300

\* The clock value the runs start from; only differences to it matter.
StartTime == 4 * ReplayWindow

SigningSecret == "signing-secret"
OtherSecret == "other-secret"

\* An X-Slack-Request-Timestamp header.  form:
\*   "decimal"    the plain decimal spelling of val ("1700000000")
\*   "padded"     another spelling int() accepts for val (" 1700000000", "+17...")
\*   "nonnumeric" a string int() rejects ("abc", "12.0")
\*   "empty"      the header is missing: headers.get(..., "") gives ""
\*   "huge"       a decimal literal of 310..4300 digits: int() accepts it, and the
\*                integer is beyond the range of a float
TimestampHeader(form, val) == [form |-> form, val |-> val]

\* int(timestamp): the integer, or ValueError.
IntOf(timestamp) ==
    CASE timestamp.form \in {"decimal", "padded"} ->
            [error |-> None, val |-> timestamp.val, float_ok |-> TRUE]
      [] timestamp.form = "huge" ->
            [error |-> None, val |-> 0, float_ok |-> FALSE]
      [] OTHER ->
            [error |-> "ValueError", val |-> 0, float_ok |-> FALSE]

(***************************************************************************)
(* JSON texts.  A text keeps what slack_events reads of the parsed value:  *)
(*   shape     "invalid" (json.loads raises), "array" (a JSON value that   *)
(*             is no object) or "object"                                   *)
(*   type      data.get("type")                                            *)
(*   challenge data.get("challenge")                                       *)
(*   event     data.get("event"): shape "absent", "string" (present, no    *)
(*             object) or "object" with type, file_id, channel_id and      *)
(*             event_ts; channel_id "unhashable" is a JSON array or object *)
(***************************************************************************)
Event(shape, type, file_id, channel_id, event_ts) ==
    [shape |-> shape, type |-> type, file_id |-> file_id,
     channel_id |-> channel_id, event_ts |-> event_ts]

NoEvent == Event("absent", None, None, None, None)

JsonText(shape, type, challenge, event) ==
    [shape |-> shape, type |-> type, challenge |-> challenge, event |-> event]

\* A request body (bytes).  enc = "utf8": the bytes are the UTF-8 encoding of
\* text; enc = "invalid": the bytes are no valid UTF-8 (text is what a lenient
\* reader would see, the strict decoder raises).
Body(enc, text) == [enc |-> enc, text |-> text]

\* body.decode('utf-8')
Utf8Decode(body) ==
    IF body.enc = "utf8" THEN Returned(body.text) ELSE Raised("UnicodeDecodeError")

\* f"v0:{timestamp}:{body}" then .encode(): the header text as sent (not the
\* parsed integer) and the decoded body.
SigBasestring(timestamp, text) == <<"v0", timestamp, text>>

\* hmac.new(key, msg, sha256).hexdigest(): an ideal MAC, distinct for distinct
\* (key, msg).
HmacSha256Hex(key, msg) == [key |-> key, msg |-> msg]

NoMac == HmacSha256Hex(None,
             SigBasestring(TimestampHeader("empty", 0),
                           JsonText("invalid", None, None, NoEvent)))

\* An X-Slack-Signature header.  form:
\*   "v0"       "v0=" followed by the hex digest mac
\*   "bare"     the hex digest mac without the "v0=" prefix
\*   "junk"     some other ASCII string
\*   "nonascii" a string holding a character above U+007F
\*   "empty"    the header is missing
SignatureHeader(form, mac) == [form |-> form, mac |-> mac]

\* What Slack sends for (timestamp, body) under key.
SlackSignature(key, timestamp, body) ==
    SignatureHeader("v0", HmacSha256Hex(key, SigBasestring(timestamp, body.text)))

\* hmac.compare_digest(a, b) on two str: TypeError unless both are ASCII.
CompareDigest(a, b) ==
    IF a.form = "nonascii" \/ b.form = "nonascii"
    THEN Raised("TypeError")
    ELSE Returned(a = b)

\* The replay-window test of line 70; a mutant accepts any parseable timestamp
\* and another rejects the boundary.
OutsideWindow(t, ts) == Abs(t - ts) > ReplayWindow

VerifyRequest(secret, t, timestamp, body, signature) ==
    LET ts == IntOf(timestamp) IN
    IF ts.error = "ValueError" THEN Returned(FALSE)
    ELSE IF ~ts.float_ok THEN Raised("OverflowError")
    ELSE IF OutsideWindow(t, ts.val) THEN Returned(FALSE)
    ELSE LET text == Utf8Decode(body) IN
         IF text.raised # None THEN Raised(text.raised)
         ELSE CompareDigest(
                  SignatureHeader("v0",
                      HmacSha256Hex(secret, SigBasestring(timestamp, text.value))),
                  signature)

(***************************************************************************)
(* Slack as the handler sees it: files.info, reactions.add, chat.*         *)
(***************************************************************************)

\* config.slack_channel_ids, as SlackHandler.channel_ids
ChannelIds == {"C1", "C2"}

\* A file name is a sequence of characters.
Lower(c) ==
    CASE c = "A" -> "a" [] c = "B" -> "b" [] c = "D" -> "d"
      [] c = "F" -> "f" [] c = "P" -> "p" [] OTHER -> c

\* str.lower()
LowerStr(str) == [i \in 1..Len(str) |-> Lower(str[i])]

\* str.endswith(suffix)
EndsWith(str, suffix) ==
    /\ Len(str) >= Len(suffix)
    /\ SubSeq(str, Len(str) - Len(suffix) + 1, Len(str)) = suffix

DotPdf == <<".", "p", "d", "f">>
UnknownPdf == <<"u", "n", "k", "n", "o", "w", "n">> \o DotPdf

NoShares == [c \in ChannelIds |-> <<>>]

\* The "file" object of a files.info response.  name is <<>> when the key is
\* absent and <<the name>> when present.  shares.public[c] and
\* shares.private[c] are the lists of share timestamps for channel c; <<>> is
\* both "no entry for c" and an empty list (shares.get(..).get(c) is falsy).
FileData(filetype, name, url_private, public, private) ==
    [filetype |-> filetype, name |-> name, url_private |-> url_private,
     shares |-> [public |-> public, private |-> private]]

\* Six more PDFs, shared one after the other to fill the worker pool.
PoolFiles == <<"P1", "P2", "P3", "P4", "P5", "P6">>

\* The files of the workspace.
FileStore(file_id) ==
    CASE file_id \in {PoolFiles[k] : k \in 1..Len(PoolFiles)} ->
            FileData("pdf", <<>>, "url-" \o file_id, NoShares, NoShares)
      [] file_id = "F1" ->
            FileData("pdf", <<(<<"a">> \o DotPdf)>>, "url-F1",
                     [NoShares EXCEPT !["C1"] = <<"p1", "p1b">>],
                     [NoShares EXCEPT !["C1"] = <<"q1">>, !["C2"] = <<"q2">>])
      [] file_id = "F2" ->
            FileData("binary", <<(<<"B", ".", "P", "D", "F">>)>>, "url-F2",
                     NoShares, NoShares)
      [] file_id = "F3" ->
            FileData("png", <<(<<"c", ".", "p", "n", "g">>)>>, "url-F3", NoShares, NoShares)
      [] OTHER ->
            FileData("png", <<>>, "url-other", NoShares, NoShares)

\* The timestamp Slack gives the status message posted for a file.
StatusTs(url) == IF url = "url-F1" THEN "st1" ELSE "st2"

\* A call as the log keeps it: the method, the channel, the message timestamp
\* it addresses (thread_ts, or the ts of the message reacted to, updated or
\* deleted; the file for files.info; the URL for a download), which text it
\* carries, and how the callee answered ("ok" unless Answered says otherwise).
Call(api, channel, ts, text) ==
    [api |-> api, channel |-> channel, ts |-> ts, text |-> text, outcome |-> "ok"]

Answered(call, outcome) == [call EXCEPT !.outcome = outcome]

\* What the three Slack calls of the handler can do.  "SlackApiError": Slack
\* answered with an error; "Exception": the call failed otherwise (network).
FilesInfoOutcomes == {"ok", "SlackApiError", "Exception"}
ReactionOutcomes == {"ok", "already_reacted", "SlackApiError", "Exception"}
StatusOutcomes == {"ok", "SlackApiError", "Exception"}

HandlerEnvs ==
    [files_info : FilesInfoOutcomes, reaction : ReactionOutcomes, status : StatusOutcomes]

\* SlackHandler.add_reaction
AddReaction(outcome) ==
    CASE outcome \in {"ok", "already_reacted"} -> Returned(TRUE)
      [] outcome = "SlackApiError" -> Returned(FALSE)
      [] OTHER -> Raised("Exception")

\* SlackHandler.post_processing_status
PostProcessingStatus(outcome, ts) ==
    CASE outcome = "ok" -> Returned(ts)
      [] outcome = "SlackApiError" -> Returned(None)
      [] OTHER -> Raised("Exception")

(***************************************************************************)
(* Event deduplicator: the set _processed_events                           *)
(***************************************************************************)

\* channel in self.channel_ids
Watched(channel) == channel \in ChannelIds

\* An identifier that is delivered once and never again.
Fresh == "fresh"

\* event_id in self._processed_events
Has(events, id) == id \in events.named

\* The insert left out.
Add_Forgotten(events, id) == events

\* self._processed_events.add(event_id), the identifier not being a member
Add(events, id) ==
    IF id = Fresh
    THEN [events EXCEPT !.others = @ + 1]
    ELSE [events EXCEPT !.named = @ \cup {id}]

\* len(self._processed_events)
Size(events) == Cardinality(events.named) + events.others

\* self._max_cache_size, and the 500 of the trim [-500:]
MaxCacheSize == 1000
TrimKeep == 500

\* set(list(self._processed_events)[-500:]): the last 500 members in the set's
\* iteration order, which is no order of insertion.  keep names the modelled
\* identifiers among them; the rest of the 500 are other members.
Trim(events, keep) ==
    LET named == events.named \cap keep
    IN  [named |-> named, others |-> TrimKeep - Cardinality(named)]

\* A message event as should_process_event reads it.
MessageEvent(channel, user, client_msg_id, event_ts) ==
    [channel |-> channel, user |-> user, client_msg_id |-> client_msg_id,
     event_ts |-> event_ts]

BotUser == "UBOT"

\* SlackHandler.get_bot_user_id: the id, fetched by auth.test when not known.
GetBotUserId(bot, auth) ==
    IF bot # None THEN Returned(bot)
    ELSE IF auth = "ok" THEN Returned(BotUser)
    ELSE Raised("SlackError")

\* SlackHandler.should_process_event: what it returns or raises, and the
\* dedup set and bot id it leaves.
ShouldProcessEvent(events, bot, event, env) ==
    LET Result(r, e, b) == [result |-> r, events |-> e, bot |-> b]
        bot_id == GetBotUserId(bot, env.auth)
        event_id == IF event.client_msg_id # None THEN event.client_msg_id
                    ELSE event.event_ts
    IN  IF ~Watched(event.channel) THEN Result(Returned(FALSE), events, bot)
        ELSE IF bot_id.raised # None THEN Result(bot_id, events, bot)
        ELSE IF event.user = bot_id.value
        THEN Result(Returned(FALSE), events, bot_id.value)
        ELSE IF event_id = None THEN Result(Returned(TRUE), events, bot_id.value)
        ELSE IF Has(events, event_id)
        THEN Result(Returned(FALSE), events, bot_id.value)
        ELSE LET added == Add(events, event_id) IN
             Result(Returned(TRUE),
                    IF Size(added) > MaxCacheSize THEN Trim(added, env.keep) ELSE added,
                    bot_id.value)

(***************************************************************************)
(* Webhook dispatcher: slack_events                                        *)
(***************************************************************************)

Job(channel, thread_ts, pdf_url, filename, status_ts) ==
    [channel |-> channel, thread_ts |-> thread_ts, pdf_url |-> pdf_url,
     filename |-> filename, status_ts |-> status_ts]

\* The outcome of one handler run: the response, the dedup set it leaves, the
\* calls it made in order, and the jobs it gave to background_tasks.
Outcome(status, body, events, calls, enqueued) ==
    [status |-> status, body |-> body, events |-> events, calls |-> calls,
     enqueued |-> enqueued]

\* raise HTTPException(status_code=...), and an exception nobody catches (the
\* server answers 500).
HttpException(status, events) == Outcome(status, None, events, <<>>, <<>>)
Unhandled(events) == Outcome(500, None, events, <<>>, <<>>)
Ok(events, calls, enqueued) == Outcome(200, None, events, calls, enqueued)

\* await request.json()
RequestJson(body) ==
    IF body.enc # "utf8" \/ body.text.shape = "invalid"
    THEN Raised("ValueError")
    ELSE Returned(body.text)

\* The name tested for being there, not for its ending.
IsPdf_AnyName(file_data) == file_data.filetype = "pdf" \/ file_data.name # <<>>

\* file_data.get("filetype") == "pdf" or file_data.get("name", "").lower().endswith(".pdf")
IsPdf(file_data) ==
    \/ file_data.filetype = "pdf"
    \/ EndsWith(LowerStr(IF file_data.name = <<>> THEN <<>> ELSE file_data.name[1]),
                DotPdf)

\* Private shares looked up before public ones.
ResolveThreadTs_PrivateFirst(file_data, channel, event) ==
    LET private == file_data.shares.private[channel]
        channel_shares == IF private # <<>> THEN private
                          ELSE file_data.shares.public[channel]
    IN  IF channel_shares # <<>> THEN channel_shares[1] ELSE event.event_ts

\* Lines 297-300: public shares of the channel first, then private ones, then
\* the event's own timestamp.
ResolveThreadTs(file_data, channel, event) ==
    LET public == file_data.shares.public[channel]
        channel_shares == IF public # <<>> THEN public
                          ELSE file_data.shares.private[channel]
    IN  IF channel_shares # <<>> THEN channel_shares[1] ELSE event.event_ts

\* The handler fetching the paper itself before it hands the job over.
AcceptFile_WaitsForDownload(events, file_data, channel, event, env) ==
    IF ~IsPdf(file_data)
    THEN Ok(events, <<Call("files_info", None, event.file_id, None)>>, <<>>)
    ELSE
    LET filename == IF file_data.name = <<>> THEN UnknownPdf ELSE file_data.name[1]
        thread_ts == ResolveThreadTs(file_data, channel, event)
    IN  Ok(events,
           <<Call("files_info", None, event.file_id, None),
             Call("reactions_add", channel, thread_ts, "party_blob"),
             Call("chat_postMessage", channel, thread_ts, "status"),
             Call("requests.get", None, file_data.url_private, None),
             Call("add_task", channel, thread_ts, None)>>,
           <<Job(channel, thread_ts, file_data.url_private, filename,
                 StatusTs(file_data.url_private))>>)

\* The job handed to background_tasks before the status message is posted.
AcceptFile_EnqueueFirst(events, file_data, channel, event, env) ==
    IF ~IsPdf(file_data)
    THEN Ok(events, <<Call("files_info", None, event.file_id, None)>>, <<>>)
    ELSE
    LET filename == IF file_data.name = <<>> THEN UnknownPdf ELSE file_data.name[1]
        thread_ts == ResolveThreadTs(file_data, channel, event)
        lookup == Call("files_info", None, event.file_id, None)
        react == Answered(Call("reactions_add", channel, thread_ts, "party_blob"),
                          env.reaction)
        post == Answered(Call("chat_postMessage", channel, thread_ts, "status"),
                         env.status)
        add_task == Call("add_task", channel, thread_ts, None)
    IN  IF AddReaction(env.reaction).raised # None
        THEN Ok(events, <<lookup, react>>, <<>>)
        ELSE Ok(events, <<lookup, react, add_task, post>>,
                <<Job(channel, thread_ts, file_data.url_private, filename, None)>>)

\* Lines 292-324, inside the try: the file is known to Slack as file_data.
\* The calls are logged in the order the handler makes them, add_task last.
AcceptFile(events, file_data, channel, event, env) ==
    IF ~IsPdf(file_data)
    THEN Ok(events, <<Call("files_info", None, event.file_id, None)>>, <<>>)
    ELSE
    LET filename == IF file_data.name = <<>> THEN UnknownPdf ELSE file_data.name[1]
        pdf_url == file_data.url_private
        thread_ts == ResolveThreadTs(file_data, channel, event)
        lookup == Call("files_info", None, event.file_id, None)
        react == Answered(Call("reactions_add", channel, thread_ts, "party_blob"),
                          env.reaction)
        post == Answered(Call("chat_postMessage", channel, thread_ts, "status"),
                         env.status)
        add_task == Call("add_task", channel, thread_ts, None)
        reacted == AddReaction(env.reaction)
        status_ts == PostProcessingStatus(env.status, StatusTs(pdf_url))
    IN  IF reacted.raised # None
        THEN Ok(events, <<lookup, react>>, <<>>)
        ELSE IF status_ts.raised # None
        THEN Ok(events, <<lookup, react, post>>, <<>>)
        ELSE Ok(events, <<lookup, react, post, add_task>>,
                <<Job(channel, thread_ts, pdf_url, filename, status_ts.value)>>)

\* The file_id recorded only once its job is enqueued.
FileShared_RecordsWhenEnqueued(events, event, env) ==
    LET file_id == event.file_id
        channel == event.channel_id
    IN  IF channel = "unhashable" THEN Unhandled(events)
        ELSE IF ~Watched(channel) THEN Ok(events, <<>>, <<>>)
        ELSE IF Has(events, file_id) THEN Ok(events, <<>>, <<>>)
        ELSE IF env.files_info # "ok" \/ file_id = None
        THEN Ok(events,
                <<Answered(Call("files_info", None, file_id, None),
                           IF env.files_info = "ok" THEN "SlackApiError"
                           ELSE env.files_info)>>,
                <<>>)
        ELSE LET out == AcceptFile(events, FileStore(file_id), channel, event, env)
             IN  IF out.enqueued = <<>> THEN out
                 ELSE [out EXCEPT !.events = Add(events, file_id)]

\* Lines 273-328: a file_shared event.
FileShared(events, event, env) ==
    LET file_id == event.file_id
        channel == event.channel_id
    IN  IF channel = "unhashable" THEN Unhandled(events)
        ELSE IF ~Watched(channel) THEN Ok(events, <<>>, <<>>)
        ELSE IF Has(events, file_id) THEN Ok(events, <<>>, <<>>)
        ELSE LET recorded == Add(events, file_id) IN
             IF env.files_info # "ok" \/ file_id = None
             THEN Ok(recorded,
                     <<Answered(Call("files_info", None, file_id, None),
                                IF env.files_info = "ok" THEN "SlackApiError"
                                ELSE env.files_info)>>,
                     <<>>)
             ELSE AcceptFile(recorded, FileStore(file_id), channel, event, env)

\* Lines 266-333: the payload is an object and no url_verification.
EventCallback(events, data, env) ==
    IF data.type = "event_callback"
    THEN LET event == data.event IN
         IF event.shape = "string" THEN Unhandled(events)
         ELSE IF event.type = "file_shared" THEN FileShared(events, event, env)
         ELSE Ok(events, <<>>, <<>>)
    ELSE Ok(events, <<>>, <<>>)

\* The challenge answered without ending the handler.
Dispatch_ChallengeNotTerminal(events, body, env) ==
    LET data == RequestJson(body) IN
    IF data.raised # None THEN HttpException(400, events)
    ELSE IF data.value.shape # "object" THEN Unhandled(events)
    ELSE IF data.value.type = "url_verification"
    THEN [EventCallback(events, [data.value EXCEPT !.type = "event_callback"], env)
             EXCEPT !.body = data.value.challenge]
    ELSE EventCallback(events, data.value, env)

\* Lines 254-333: the request is verified.
Dispatch(events, body, env) ==
    LET data == RequestJson(body) IN
    IF data.raised # None THEN HttpException(400, events)
    ELSE IF data.value.shape # "object" THEN Unhandled(events)
    ELSE IF data.value.type = "url_verification"
    THEN Outcome(200, data.value.challenge, events, <<>>, <<>>)
    ELSE EventCallback(events, data.value, env)

\* The signature checked after the event was dispatched.
SlackEventsOutcome_VerifyLast(events, t, req, env) ==
    LET verified == VerifyRequest(SigningSecret, t, req.timestamp, req.body,
                                  req.signature)
        out == Dispatch(events, req.body, env)
    IN  IF verified.raised # None THEN Unhandled(events)
        ELSE IF ~verified.value THEN [out EXCEPT !.status = 401]
        ELSE out

\* slack_events, lines 245-333.
SlackEventsOutcome(events, t, req, env) ==
    LET verified == VerifyRequest(SigningSecret, t, req.timestamp, req.body,
                                  req.signature)
    IN  IF verified.raised # None THEN Unhandled(events)
        ELSE IF ~verified.value THEN HttpException(401, events)
        ELSE Dispatch(events, req.body, env)

(***************************************************************************)
(* Thread poster: post_thread_reply, update_message, delete_message        *)
(***************************************************************************)

\* config.max_retries, given to the SlackHandler and to the PaperSummarizer.
MaxRetries == 3

\* What one chat.postMessage attempt can do: succeed, fail with a Slack API
\* error that is retried, fail with one that is not, or fail otherwise.
PermanentErrors == {"channel_not_found", "not_in_channel"}
AttemptOutcomes == {"ok", "SlackApiError", "Exception"} \cup PermanentErrors

\* What a called function did: the calls it made and the exception that left
\* it (None: it returned).
Done(calls, raised) == [calls |-> calls, raised |-> raised]

\* The loop of post_thread_reply from the given attempt on; outcomes[attempt]
\* is what Slack does to that attempt.
RECURSIVE PostThreadReplyFrom(_, _, _, _, _)
PostThreadReplyFrom(attempt, channel, thread_ts, text, outcomes) ==
    IF attempt > MaxRetries THEN Done(<<>>, "SlackError")
    ELSE
    LET call == Answered(Call("chat_postMessage", channel, thread_ts, text),
                         outcomes[attempt])
    IN  CASE outcomes[attempt] = "ok" -> Done(<<call>>, None)
          [] outcomes[attempt] \in PermanentErrors -> Done(<<call>>, "SlackError")
          [] outcomes[attempt] = "Exception" -> Done(<<call>>, "Exception")
          [] OTHER ->
                LET rest == PostThreadReplyFrom(attempt + 1, channel, thread_ts, text,
                                                outcomes)
                IN  Done(<<call>> \o rest.calls, rest.raised)

PostThreadReply_StartsOver(channel, thread_ts, text, outcomes) ==
    LET first == PostThreadReplyFrom(1, channel, thread_ts, text, outcomes)
        second == PostThreadReplyFrom(1, channel, thread_ts, text, outcomes)
    IN  IF first.raised = "SlackError" /\ Len(first.calls) = MaxRetries
        THEN Done(first.calls \o second.calls, second.raised)
        ELSE first

PostThreadReply_RetriesEveryError(channel, thread_ts, text, outcomes) ==
    PostThreadReplyFrom(1, channel, thread_ts, text,
                        [i \in 1..MaxRetries |->
                            IF outcomes[i] \in PermanentErrors THEN "SlackApiError"
                            ELSE outcomes[i]])

\* SlackHandler.post_thread_reply
PostThreadReply(channel, thread_ts, text, outcomes) ==
    PostThreadReplyFrom(1, channel, thread_ts, text, outcomes)

\* SlackHandler.update_message: a SlackApiError of any kind is logged.
UpdateMessage(channel, ts, text, outcome) ==
    Done(<<Answered(Call("chat_update", channel, ts, text), outcome)>>,
         IF outcome = "Exception" THEN "Exception" ELSE None)

\* SlackHandler.delete_message
DeleteMessage(channel, ts, outcome) ==
    Done(<<Answered(Call("chat_delete", channel, ts, None), outcome)>>,
         IF outcome = "Exception" THEN "Exception" ELSE None)

(***************************************************************************)
(* Summarizer: PaperSummarizer and its cache directory                     *)
(***************************************************************************)

\* The keys of PROMPTS.
DetailLevels == {"short", "normal", "detailed"}

ModelName == "gemini-1.5-flash"

\* config.summary_enable_cache
CacheEnabled == TRUE

\* Texts are sequences of characters where the code looks into them.
Whitespace == {" ", "\n"}

RECURSIVE LStrip(_)
LStrip(str) ==
    IF str # <<>> /\ Head(str) \in Whitespace THEN LStrip(Tail(str)) ELSE str

RECURSIVE RStrip(_)
RStrip(str) ==
    IF str # <<>> /\ str[Len(str)] \in Whitespace
    THEN RStrip(SubSeq(str, 1, Len(str) - 1))
    ELSE str

\* str.strip()
Strip(str) == RStrip(LStrip(str))

\* hashlib.sha256(text.encode()).hexdigest(): different texts, different digests.
Sha256(text) == [sha256 |-> text]

CachePath_IgnoresLevel(text_hash, level) ==
    [hash |-> text_hash, detail_level |-> "normal"]

\* _get_cache_path
CachePath(text_hash, level) == [hash |-> text_hash, detail_level |-> level]

\* A file of the cache directory: its path and the dict json.dump wrote.
\* complete is FALSE for a file whose JSON text was cut short by a failed write.
CacheFile(path, complete, text_hash, level, model, summary) ==
    [path |-> path, complete |-> complete, hash |-> text_hash,
     detail_level |-> level, model |-> model, summary |-> summary]

\* _load_from_cache: <<>> is None, <<summary>> the stored summary.
LoadFromCache(cache_enabled, files, level, text_hash) ==
    IF ~cache_enabled THEN <<>>
    ELSE LET found == {f \in files : f.path = CachePath(text_hash, level)} IN
         IF found = {} THEN <<>>
         ELSE LET f == CHOOSE f \in found : TRUE IN
              IF f.complete THEN <<f.summary>> ELSE <<>>

\* What the write of a cache file can do: succeed, fail at open (the directory
\* is unchanged), or fail after open truncated the file.
SaveOutcomes == {"ok", "open_fails", "write_fails"}

\* _save_to_cache; every failure is logged and swallowed.
SaveToCache(cache_enabled, files, level, model, text_hash, summary, outcome) ==
    LET path == CachePath(text_hash, level)
        others == {f \in files : f.path # path}
    IN  IF ~cache_enabled \/ outcome = "open_fails" THEN files
        ELSE IF outcome = "write_fails"
        THEN others \cup {CacheFile(path, FALSE, text_hash, level, model, <<>>)}
        ELSE others \cup {CacheFile(path, TRUE, text_hash, level, model, summary)}

\* What generate_content answers to one attempt: it raises error, or returns a
\* response with the text.
ApiRaises(error) == [error |-> error, text |-> <<>>]
ApiReturns(text) == [error |-> None, text |-> text]

EmptyResponse == "Empty response from Gemini"

\* What summarize did: the summary it returned (<<summary>>) or the exception
\* that left it, the last error of its attempts, its calls, and the cache
\* directory it leaves.
Summarized(summary, raised, last_error, calls, files) ==
    [summary |-> summary, raised |-> raised, last_error |-> last_error,
     calls |-> calls, files |-> files]

Generate_OneAttempt(attempt, last_error, cache_enabled, files, level, model, text, responses, save) ==
    LET answer == responses[attempt]
        request_call == Call("generate_content", None, level, text)
    IN  IF answer.error = None /\ answer.text # <<>>
        THEN Summarized(<<Strip(answer.text)>>, None, last_error, <<request_call>>,
                        SaveToCache(cache_enabled, files, level, model,
                                    Sha256(text), Strip(answer.text), save))
        ELSE Summarized(<<>>, "SummaryError", "failed", <<Answered(request_call, "failed")>>,
                        files)

\* The retry loop of summarize, lines 275-303, from the given attempt on.
RECURSIVE Generate(_, _, _, _, _, _, _, _, _)
Generate(attempt, last_error, cache_enabled, files, level, model, text, responses, save) ==
    IF attempt > MaxRetries
    THEN Summarized(<<>>, "SummaryError", last_error, <<>>, files)
    ELSE
    LET answer == responses[attempt]
        request_call == Call("generate_content", None, level, text)
    IN  IF answer.error = None /\ answer.text # <<>>
        THEN LET summary == Strip(answer.text)
                 write == IF cache_enabled
                          THEN <<Answered(Call("cache_write", None, level, text), save)>>
                          ELSE <<>>
             IN  Summarized(<<summary>>, None, last_error, <<request_call>> \o write,
                            SaveToCache(cache_enabled, files, level, model,
                                        Sha256(text), summary, save))
        ELSE LET error == IF answer.error = None THEN EmptyResponse
                          ELSE answer.error
                 rest == Generate(attempt + 1, error, cache_enabled, files, level,
                                  model, text, responses, save)
             IN  [rest EXCEPT !.calls = <<Answered(request_call, error)>> \o rest.calls]

Summarize_AsksCachedModel(cache_enabled, files, level, model, text, responses, save) ==
    LET found == {f \in files : /\ f.path = CachePath(Sha256(text), level)
                                /\ f.complete
                                /\ f.summary # <<>>
                                /\ f.model = model}
    IN  IF cache_enabled /\ found # {}
        THEN Summarized(<<(CHOOSE f \in found : TRUE).summary>>, None, None, <<>>, files)
        ELSE Generate(1, None, cache_enabled, files, level, model, text, responses, save)

\* PaperSummarizer.summarize.  "if cached:" takes None and "" for a miss.
Summarize(cache_enabled, files, level, model, text, responses, save) ==
    LET cached == LoadFromCache(cache_enabled, files, level, Sha256(text)) IN
    IF cached # <<>> /\ cached[1] # <<>>
    THEN Summarized(cached, None, None, <<>>, files)
    ELSE Generate(1, None, cache_enabled, files, level, model, text, responses, save)

\* PaperSummarizer.set_detail_level
SetDetailLevelTo(level, requested) ==
    IF requested \notin DetailLevels
    THEN [level |-> level, raised |-> "ValueError"]
    ELSE [level |-> requested, raised |-> None]

(***************************************************************************)
(* Block formatter: SlackHandler.format_summary_blocks                     *)
(*                                                                         *)
(* The texts it measures are thousands of characters long, so a text is    *)
(* kept here as its runs: a sequence of [char, count] with count >= 1 and  *)
(* no two neighbours of the same char.  Length, slicing, concatenation,    *)
(* split("\n\n") and strip() are computed on the runs as Python computes   *)
(* them on the characters.                                                 *)
(***************************************************************************)

\* count times the character c
Chars(c, count) == IF count = 0 THEN <<>> ELSE <<[char |-> c, count |-> count]>>

\* len(text)
RECURSIVE TextLen(_)
TextLen(text) == IF text = <<>> THEN 0 ELSE Head(text).count + TextLen(Tail(text))

\* left + right
Join(left, right) ==
    IF left = <<>> THEN right
    ELSE IF right = <<>> THEN left
    ELSE IF left[Len(left)].char = Head(right).char
    THEN SubSeq(left, 1, Len(left) - 1)
            \o Chars(Head(right).char, left[Len(left)].count + Head(right).count)
            \o Tail(right)
    ELSE left \o right

\* text[:limit]
RECURSIVE Take(_, _)
Take(text, limit) ==
    IF text = <<>> \/ limit = 0 THEN <<>>
    ELSE IF Head(text).count >= limit THEN Chars(Head(text).char, limit)
    ELSE <<Head(text)>> \o Take(Tail(text), limit - Head(text).count)

\* text.strip()
RECURSIVE StripLeft(_)
StripLeft(text) ==
    IF text # <<>> /\ Head(text).char \in Whitespace THEN StripLeft(Tail(text)) ELSE text

RECURSIVE StripRight(_)
StripRight(text) ==
    IF text # <<>> /\ text[Len(text)].char \in Whitespace
    THEN StripRight(SubSeq(text, 1, Len(text) - 1))
    ELSE text

StripText(text) == StripRight(StripLeft(text))

\* text.split("\n\n"), with current the piece read so far.  The separators are
\* found from the left and do not overlap: a run of k newlines holds k \div 2
\* of them, and an odd newline left over starts the next piece.
RECURSIVE SplitFrom(_, _)
SplitFrom(text, current) ==
    IF text = <<>> THEN <<current>>
    ELSE IF Head(text).char = "\n" /\ Head(text).count >= 2
    THEN <<current>>
            \o [i \in 1..((Head(text).count \div 2) - 1) |-> <<>>]
            \o SplitFrom(Tail(text), Chars("\n", Head(text).count % 2))
    ELSE SplitFrom(Tail(text), Join(current, <<Head(text)>>))

SplitParagraphs(text) == SplitFrom(text, <<>>)

\* max_block_length
MaxBlockLength == 2900

\* filename[:50]
FilenameLimit == 50

Block(type, text) == [type |-> type, text |-> text]

HeaderTitle == <<[char |-> "title", count |-> 1], [char |-> " ", count |-> 1]>>
FooterText == <<[char |-> "footer", count |-> 1]>>

\* Lines 341-350: the title, the first 50 characters of the file name and
\* three dots if the name is longer.
HeaderBlock(filename) ==
    Block("header",
          Join(HeaderTitle,
               Join(Take(filename, FilenameLimit),
                    IF TextLen(filename) > FilenameLimit THEN Chars(".", 3) ELSE <<>>)))

Separator == Chars("\n", 2)

\* Lines 371-377 and 380-386: a chunk that is not the empty string becomes a
\* section block with its text stripped.
Emit(current_chunk) ==
    IF current_chunk # <<>> THEN <<Block("section", StripText(current_chunk))>> ELSE <<>>

\* Lines 367-386: the loop over the paragraphs and the block after it.
RECURSIVE ChunkParagraphs(_, _)
ChunkParagraphs(paragraphs, current_chunk) ==
    IF paragraphs = <<>> THEN Emit(current_chunk)
    ELSE
    LET para == Head(paragraphs) IN
    IF TextLen(current_chunk) + TextLen(para) + 2 <= MaxBlockLength
    THEN ChunkParagraphs(Tail(paragraphs), Join(current_chunk, Join(para, Separator)))
    ELSE Emit(current_chunk) \o ChunkParagraphs(Tail(paragraphs), Join(para, Separator))

\* Lines 355-386: the section blocks of a summary.
SectionBlocks(summary) ==
    IF TextLen(summary) <= MaxBlockLength
    THEN <<Block("section", summary)>>
    ELSE ChunkParagraphs(SplitParagraphs(summary), <<>>)

\* The sections come out last paragraph first.
FormatSummaryBlocks_LastFirst(summary, filename) ==
    LET sections == SectionBlocks(summary) IN
    <<HeaderBlock(filename), Block("divider", <<>>)>>
        \o [i \in 1..Len(sections) |-> sections[Len(sections) + 1 - i]]
        \o <<Block("divider", <<>>), Block("context", FooterText)>>

\* SlackHandler.format_summary_blocks
FormatSummaryBlocks(summary, filename) ==
    <<HeaderBlock(filename), Block("divider", <<>>)>>
        \o SectionBlocks(summary)
        \o <<Block("divider", <<>>), Block("context", FooterText)>>

(***************************************************************************)
(* Fetcher and extractor: PDFParser.extract_from_url                       *)
(***************************************************************************)

\* The text of the paper behind a URL.
PaperText(url) == IF url \in {"url-F1", "url-F2"} THEN "T1" ELSE "T2"

DownloadOutcomes == {"ok", "Timeout", "RequestException", "Exception"}
ExtractOutcomes == {"ok", "no_text", "Exception"}

\* What extract_from_url did: the text it returned, or the exception that left
\* it and its message, and its calls.
Extracted(text, raised, message, calls) ==
    [text |-> text, raised |-> raised, message |-> message, calls |-> calls]

\* download_pdf turns the exceptions of requests into PDFParseError and lets
\* the others through (url[:50] raises TypeError when the file has no
\* url_private); extract_text turns every exception into PDFParseError.
ExtractFromUrl(url, download, extract) ==
    LET get == Answered(Call("requests.get", None, url, None), download)
        parse == Answered(Call("extract_text", None, url, None), extract)
    IN  IF url = None THEN Extracted(None, "TypeError", None, <<>>)
        ELSE IF download = "Timeout"
        THEN Extracted(None, "PDFParseError", "Download timed out", <<get>>)
        ELSE IF download = "RequestException"
        THEN Extracted(None, "PDFParseError", "Failed to download PDF", <<get>>)
        ELSE IF download # "ok" THEN Extracted(None, "Exception", None, <<get>>)
        ELSE IF extract = "no_text"
        THEN Extracted(None, "PDFParseError", "No text could be extracted from PDF",
                       <<get, parse>>)
        ELSE IF extract # "ok"
        THEN Extracted(None, "PDFParseError", "Failed to extract text from PDF",
                       <<get, parse>>)
        ELSE Extracted(PaperText(url), None, None, <<get, parse>>)

(***************************************************************************)
(* Background job: process_pdf_sync                                        *)
(***************************************************************************)

\* How a run of process_pdf_sync ended: its calls in order, the branch that
\* ended it, and the exception that left the function (None: it returned).
Run(calls, result, raised) == [calls |-> calls, result |-> result, raised |-> raised]

\* The message of the SummaryError of line 303.
SummaryErrorMessage(last_error) == "Failed to generate summary: " \o last_error

\* The texts of lines 186, 195 and 208; the second is the one that tells the
\* user to check the API quota, the third names the type of the exception.
\* (SummaryErrorText_ParseText: a summary error reported with the parse text.)
ParseErrorText(message) == "PDF parse error: " \o message
SummaryErrorText_ParseText(message) == "PDF parse error: " \o message
SummaryErrorText(message) == "Summary error, check the API quota: " \o message
UnexpectedErrorText(type) == "Unexpected error: " \o type

SummaryText == "summary"

\* The job reports an error both ways.
Notify_BothWays(job, text, outcomes) ==
    LET update == UpdateMessage(job.channel, job.status_ts, text, outcomes[1])
        reply == PostThreadReply(job.channel, job.thread_ts, text, outcomes)
    IN  IF job.status_ts # None
        THEN Done(update.calls \o reply.calls, reply.raised)
        ELSE reply

\* Lines 188-191, 197-200 and 209-212: report an error text to the thread, by
\* editing the status message or, without one, by a reply.
Notify(job, text, outcomes) ==
    IF job.status_ts # None
    THEN UpdateMessage(job.channel, job.status_ts, text, outcomes[1])
    ELSE PostThreadReply(job.channel, job.thread_ts, text, outcomes)

\* What the try body did: its calls, the exception that left it and its
\* message, and the cache directory it leaves.
Tried(calls, raised, message, files) ==
    [calls |-> calls, raised |-> raised, message |-> message, files |-> files]

\* The status message deleted before the paper is even fetched.
TryBody_DeletesFirst(job, files, level, o) ==
    LET extracted == ExtractFromUrl(job.pdf_url, o.download, o.extract)
        deleted == IF job.status_ts # None
                   THEN DeleteMessage(job.channel, job.status_ts, o.delete)
                   ELSE Done(<<>>, None)
        summarized == Summarize(CacheEnabled, files, level, ModelName, extracted.text,
                                o.responses, o.save)
        posted == PostThreadReply(job.channel, job.thread_ts, SummaryText, o.post)
    IN  IF extracted.raised # None
        THEN Tried(deleted.calls \o extracted.calls, extracted.raised,
                   extracted.message, files)
        ELSE IF summarized.raised # None
        THEN Tried(deleted.calls \o extracted.calls, summarized.raised,
                   SummaryErrorMessage(summarized.last_error), summarized.files)
        ELSE Tried(deleted.calls \o extracted.calls
                      \o <<Call("summarize", None, level, extracted.text)>>
                      \o summarized.calls
                      \o <<Call("format_summary_blocks", None, None, SummaryText)>>
                      \o posted.calls,
                   posted.raised, None, summarized.files)

\* Lines 157-182: the try body.  o says what each external call does.
TryBody(job, files, level, o) ==
    LET extracted == ExtractFromUrl(job.pdf_url, o.download, o.extract) IN
    IF extracted.raised # None
    THEN Tried(extracted.calls, extracted.raised, extracted.message, files)
    ELSE
    LET summarized == Summarize(CacheEnabled, files, level, ModelName, extracted.text,
                                o.responses, o.save)
        before == extracted.calls \o <<Call("summarize", None, level, extracted.text)>>
                     \o summarized.calls
    IN  IF summarized.raised # None
        THEN Tried(before, summarized.raised,
                   SummaryErrorMessage(summarized.last_error), summarized.files)
        ELSE
        LET format == Call("format_summary_blocks", None, None, SummaryText)
            deleted == IF job.status_ts # None
                       THEN DeleteMessage(job.channel, job.status_ts, o.delete)
                       ELSE Done(<<>>, None)
            posted == PostThreadReply(job.channel, job.thread_ts, SummaryText, o.post)
        IN  IF deleted.raised # None
            THEN Tried(before \o <<format>> \o deleted.calls, deleted.raised, None,
                       summarized.files)
            ELSE Tried(before \o <<format>> \o deleted.calls \o posted.calls,
                       posted.raised, None, summarized.files)

\* Lines 184-200: the handlers of PDFParseError and SummaryError report outside
\* any try, so what the report raises leaves process_pdf_sync.
Finished(calls, result, report) == Run(calls \o report.calls, result, report.raised)

\* A failed post reported to the thread like any other failure.
ProcessPdfSync_ReportsPostError(job, files, level, o) ==
    LET body == TryBody(job, files, level, o)
        report == Notify(job, UnexpectedErrorText(body.raised), o.notify)
    IN  [run |-> IF body.raised = None THEN Run(body.calls, "posted", None)
                 ELSE IF body.raised = "SlackError"
                 THEN Run(body.calls \o report.calls, "slack_error", None)
                 ELSE Run(body.calls \o report.calls, "unexpected", None),
         files |-> body.files]

\* process_pdf_sync, lines 157-214: the run and the cache directory it leaves.
ProcessPdfSync(job, files, level, o) ==
    LET body == TryBody(job, files, level, o)
        run ==
          CASE body.raised = None -> Run(body.calls, "posted", None)
            [] body.raised = "PDFParseError" ->
                  Finished(body.calls, "parse_error",
                           Notify(job, ParseErrorText(body.message), o.notify))
            [] body.raised = "SummaryError" ->
                  Finished(body.calls, "summary_error",
                           Notify(job, SummaryErrorText(body.message), o.notify))
            [] body.raised = "SlackError" -> Run(body.calls, "slack_error", None)
            [] OTHER ->
                  LET report == Notify(job, UnexpectedErrorText(body.raised), o.notify)
                  IN  Run(body.calls \o report.calls, "unexpected", None)
    IN  [run |-> run, files |-> body.files]

(***************************************************************************)
(* What the outside world does to a job                                    *)
(***************************************************************************)

\* chat.postMessage attempts: k transient failures, then the same answer to
\* every later attempt.
Transient(k, last) == [i \in 1..MaxRetries |-> IF i <= k THEN "SlackApiError" ELSE last]

PostOutcomes == {Transient(k, last) : k \in 0..(MaxRetries - 1), last \in AttemptOutcomes}

QuietPost == Transient(0, "ok")

DeleteOutcomes == {"ok", "SlackApiError", "Exception"}

\* Answers of the generation API to one attempt: two ways to fail (an
\* exception, a response without text) and three texts, one of them blank.
ApiFailures == {ApiRaises("ResourceExhausted"), ApiReturns(<<>>)}
ApiTexts == {ApiReturns(<<" ">>), ApiReturns(<<" ", "S", "\n">>), ApiReturns(<<"R">>)}

\* The answers to the attempts of one summarize call: failures, then (if
\* ever) a text; what comes after the first text is never asked for.
ResponseSequences ==
    {r \in [1..MaxRetries -> ApiFailures \cup ApiTexts] :
        \A i \in 1..MaxRetries :
            r[i] \in ApiTexts => \A j \in i..MaxRetries : r[j] = r[i]}

QuietResponses == [i \in 1..MaxRetries |-> ApiReturns(<<" ", "S", "\n">>)]

\* What happens to the call that reports an error.
NotifyOutcomes ==
    {Transient(0, last) : last \in AttemptOutcomes}
    \cup {Transient(MaxRetries - 1, "ok"), Transient(MaxRetries - 1, "not_in_channel")}

AllRaise == [i \in 1..MaxRetries |-> ApiRaises("ResourceExhausted")]

JobEnv(download, extract, responses, save, delete, post, notify) ==
    [download |-> download, extract |-> extract, responses |-> responses,
     save |-> save, delete |-> delete, post |-> post, notify |-> notify]

\* What each external call of a job does.  A call that a run does not reach
\* has consulted nothing, so the outcomes are varied stage by stage: the
\* download, the extraction, the generation API, the cache write, the deletion
\* and the post, and the report of an error.
JobEnvs ==
    {JobEnv(d, "ok", QuietResponses, "ok", "ok", QuietPost, n) :
        d \in DownloadOutcomes, n \in NotifyOutcomes}
    \cup {JobEnv("ok", e, QuietResponses, "ok", "ok", QuietPost, n) :
            e \in ExtractOutcomes, n \in NotifyOutcomes}
    \cup {JobEnv("ok", "ok", r, "ok", "ok", QuietPost, QuietPost) :
            r \in ResponseSequences}
    \cup {JobEnv("ok", "ok", AllRaise, "ok", "ok", QuietPost, n) : n \in NotifyOutcomes}
    \cup {JobEnv("ok", "ok", QuietResponses, w, "ok", QuietPost, QuietPost) :
            w \in SaveOutcomes}
    \cup {JobEnv("ok", "ok", QuietResponses, "ok", d, p, QuietPost) :
            d \in DeleteOutcomes, p \in PostOutcomes}
    \cup {JobEnv("ok", "ok", QuietResponses, "ok", d, Transient(0, "Exception"), n) :
            d \in {"ok", "Exception"}, n \in NotifyOutcomes}

\* ThreadPoolExecutor(max_workers=4)
MaxWorkers == 4

(***************************************************************************)
(* Inputs of the authenticator                                             *)
(***************************************************************************)

\* Distances of a timestamp from the clock, on both sides of the window's edge.
Offsets == {-(ReplayWindow + 1), -ReplayWindow, 0, ReplayWindow, ReplayWindow + 1}

TimestampHeaders ==
    {TimestampHeader(f, StartTime + d) : f \in {"decimal", "padded"}, d \in Offsets}
    \cup {TimestampHeader("nonnumeric", 0), TimestampHeader("empty", 0),
          TimestampHeader("huge", 0)}

UrlVerification == JsonText("object", "url_verification", "challenge-token", NoEvent)
OtherType == JsonText("object", "app_rate_limited", None, NoEvent)

VerifyBodies ==
    {Body("utf8", UrlVerification), Body("utf8", OtherType), Body("invalid", OtherType)}

SignatureHeaders ==
    {SlackSignature(k, ts, b) :
        k \in {SigningSecret, OtherSecret}, ts \in TimestampHeaders, b \in VerifyBodies}
    \cup {SignatureHeader("bare",
              HmacSha256Hex(SigningSecret, SigBasestring(ts, b.text))) :
            ts \in TimestampHeaders, b \in VerifyBodies}
    \cup {SignatureHeader(f, NoMac) : f \in {"junk", "nonascii", "empty"}}

Request(timestamp, body, signature) ==
    [timestamp |-> timestamp, body |-> body, signature |-> signature]

VerifyInputs ==
    {Request(ts, b, sig) :
        ts \in TimestampHeaders, b \in VerifyBodies, sig \in SignatureHeaders}

\* The readings of the clock.
MaxClockTicks == 1
Clock == StartTime .. StartTime + MaxClockTicks

(***************************************************************************)
(* State                                                                   *)
(***************************************************************************)

\* _processed_events: the members that some modelled event names, and the
\* number of further members (identifiers delivered once and never again).
EmptyEvents == [named |-> {}, others |-> 0]

\* Three jobs that summarize the same text at the same level at a time.
Threads == {"t1", "t2", "t3"}

\* Where one of these summarize calls stands: before its lookup, between the
\* steps of its cache write, or done with the summary it returns; source says
\* whether that came from the cache file or from the generation API.
Position(pc, summary, source, raised) ==
    [pc |-> pc, summary |-> summary, source |-> source, raised |-> raised]

NotCalled == Position("start", <<>>, None, None)

NoEffects == [calls |-> <<>>, dedup_added |-> FALSE, enqueued |-> <<>>]

Init ==
    /\ now = StartTime
    /\ processed_events = EmptyEvents
    /\ bot_user_id = None
    /\ request = <<>>
    /\ response = <<>>
    /\ effects = NoEffects
    /\ jobs = <<>>
    /\ job_run = <<>>
    /\ verify_result = <<>>
    /\ dedup_call = <<>>
    /\ cache = {}
    /\ detail_level = "normal"
    /\ summarize_call = <<>>
    /\ model_name = ModelName
    /\ level_call = <<>>
    /\ post_call = <<>>
    /\ format_call = <<>>
    /\ entry_file = <<>>
    /\ threads = [t \in Threads |-> NotCalled]

(***************************************************************************)
(* SpecVerify: verify_request called on every input                        *)
(***************************************************************************)

CallVerifyRequest(t, req) ==
    /\ now' = t
    /\ request' = <<req>>
    /\ verify_result' =
          <<VerifyRequest(SigningSecret, t, req.timestamp, req.body, req.signature)>>
    /\ UNCHANGED <<processed_events, bot_user_id, response, effects, jobs, job_run,
                   dedup_call, cache, detail_level, summarize_call, direct_vars>>

NextVerify == \E t \in Clock, req \in VerifyInputs : CallVerifyRequest(t, req)

SpecVerify == Init /\ [][NextVerify]_vars

\* The timestamp header names an integer further than the window from t.
TimestampFar(timestamp, t) ==
    \/ timestamp.form = "huge"
    \/ timestamp.form \in {"decimal", "padded"} /\ Abs(t - timestamp.val) > ReplayWindow

TimestampUnparseable(timestamp) == timestamp.form \in {"nonnumeric", "empty"}

\* C2: verify_request returns False whenever the timestamp header is not an
\* integer or is more than 300 seconds from the current time, whatever the
\* signature; a timestamp exactly 300 seconds away passes the window (with the
\* right signature over a UTF-8 body the call returns True).
C2_WindowRejects ==
    \A i \in 1..Len(verify_result) :
        LET req == request[i] IN
        /\ (TimestampUnparseable(req.timestamp) \/ TimestampFar(req.timestamp, now))
              => verify_result[i] = Returned(FALSE)
        /\ (/\ req.timestamp.form \in {"decimal", "padded"}
            /\ Abs(now - req.timestamp.val) = ReplayWindow
            /\ req.body.enc = "utf8"
            /\ req.signature = SlackSignature(SigningSecret, req.timestamp, req.body))
              => verify_result[i] = Returned(TRUE)

\* The case of C2 the code gets wrong: an integer timestamp too large for a
\* float has been verified.
C2_HugeTimestampVerified ==
    /\ Len(verify_result) = 1
    /\ request[1].timestamp.form = "huge"
    /\ verify_result[1] = Raised("OverflowError")

TimestampInWindow(timestamp, t) ==
    timestamp.form \in {"decimal", "padded"} /\ Abs(t - timestamp.val) <= ReplayWindow

\* C3: for a timestamp inside the window verify_request returns True exactly
\* when the signature header is "v0=" + HMAC-SHA256(secret, "v0:" + timestamp +
\* ":" + body), and returns False for every other signature.
C3_SignatureDecides ==
    \A i \in 1..Len(verify_result) :
        LET req == request[i] IN
        TimestampInWindow(req.timestamp, now) =>
            IF req.signature = SlackSignature(SigningSecret, req.timestamp, req.body)
            THEN verify_result[i] = Returned(TRUE)
            ELSE verify_result[i] = Returned(FALSE)

\* The cases of C3 the code gets wrong: inside the window, the call raised.
C3_RaisedInsideWindow ==
    /\ Len(verify_result) = 1
    /\ TimestampInWindow(request[1].timestamp, now)
    /\ verify_result[1].raised \in {"UnicodeDecodeError", "TypeError"}

(***************************************************************************)
(* Spec: the webhook endpoint and the jobs it starts                       *)
(***************************************************************************)

FileSharedText(file_id, channel_id) ==
    JsonText("object", "event_callback", None,
             Event("object", "file_shared", file_id, channel_id, "e1"))

\* The JSON texts Slack, or anybody else, posts to /slack/events.
Texts ==
    {UrlVerification, OtherType,
     JsonText("invalid", None, None, NoEvent),
     JsonText("array", None, None, NoEvent),
     JsonText("object", "url_verification", "challenge-token",
              Event("object", "file_shared", "F1", "C1", "e1")),
     JsonText("object", "event_callback", None, NoEvent),
     JsonText("object", "event_callback", None, Event("string", None, None, None, None)),
     JsonText("object", "event_callback", None,
              Event("object", "message", None, "C1", "e1")),
     FileSharedText("F1", "C1"), FileSharedText("F1", "C2"),
     FileSharedText("F2", "C1"),
     FileSharedText("F3", "C1"), FileSharedText("F1", "C9"),
     FileSharedText(None, "C1"), FileSharedText("F1", "unhashable")}

\* A request as Slack signs it at time t.
Signed(t, text) ==
    LET ts == TimestampHeader("decimal", t)
        body == Body("utf8", text)
    IN  Request(ts, body, SlackSignature(SigningSecret, ts, body))

\* Requests that fail, or nearly fail, verification: a replayed one, one at the
\* edge of the window, tampered bodies, foreign and malformed signatures.
Unsigned(t) ==
    LET good == Signed(t, FileSharedText("F1", "C1"))
        old == TimestampHeader("decimal", t - ReplayWindow - 1)
        edge == TimestampHeader("decimal", t - ReplayWindow)
    IN  {Request(old, good.body, SlackSignature(SigningSecret, old, good.body)),
         Request(edge, good.body, SlackSignature(SigningSecret, edge, good.body)),
         [good EXCEPT !.body = Body("utf8", FileSharedText("F2", "C1"))],
         [good EXCEPT !.body = Body("invalid", FileSharedText("F1", "C1"))],
         [good EXCEPT !.signature = SignatureHeader("nonascii", NoMac)],
         [good EXCEPT !.signature = SignatureHeader("empty", NoMac)],
         [Signed(t, UrlVerification) EXCEPT !.signature = SignatureHeader("junk", NoMac)],
         [good EXCEPT !.timestamp = TimestampHeader("huge", 0)]}

HandlerRequests == {Signed(StartTime, text) : text \in Texts} \cup Unsigned(StartTime)

\* Every outcome Slack's answers allow for a request.  A run that makes no
\* Slack call has consulted none of them and has the one outcome.
QuietEnv == [files_info |-> "ok", reaction |-> "ok", status |-> "ok"]

SlackEventsOutcomes(events, t, req) ==
    LET quiet == SlackEventsOutcome(events, t, req, QuietEnv) IN
    IF quiet.calls = <<>>
    THEN {quiet}
    ELSE {SlackEventsOutcome(events, t, req, env) : env \in HandlerEnvs}

QueuedJob(job) == [args |-> job, state |-> "queued"]

\* One webhook delivery, from the request to the response.  request, response
\* and effects describe the delivery answered last, job_run the job that ended
\* last; each is empty when the step taken last was of another kind.
SlackEvents(req) ==
    \E out \in SlackEventsOutcomes(processed_events, now, req) :
        /\ request' = <<req>>
        /\ response' = <<[status |-> out.status, body |-> out.body]>>
        /\ processed_events' = out.events
        /\ effects' = [calls |-> out.calls,
                       dedup_added |-> out.events # processed_events,
                       enqueued |-> out.enqueued]
        /\ jobs' = jobs \o [i \in 1..Len(out.enqueued) |-> QueuedJob(out.enqueued[i])]
        /\ job_run' = <<>>
        /\ dedup_call' = <<>>
        /\ UNCHANGED <<now, bot_user_id, verify_result, cache, detail_level,
                       summarize_call, direct_vars>>

Running == {i \in 1..Len(jobs) : jobs[i].state = "running"}

StartJob_NoPoolLimit(i) ==
    /\ jobs[i].state = "queued"
    /\ jobs' = [jobs EXCEPT ![i].state = "running"]
    /\ request' = <<>>
    /\ response' = <<>>
    /\ effects' = NoEffects
    /\ job_run' = <<>>
    /\ UNCHANGED <<now, processed_events, bot_user_id, verify_result, dedup_call,
                   cache, detail_level, summarize_call, direct_vars>>

\* A worker of the pool takes a job: process_pdf_async, run_in_executor.
StartJob(i) ==
    /\ jobs[i].state = "queued"
    /\ Cardinality(Running) < MaxWorkers
    /\ jobs' = [jobs EXCEPT ![i].state = "running"]
    /\ request' = <<>>
    /\ response' = <<>>
    /\ effects' = NoEffects
    /\ job_run' = <<>>
    /\ UNCHANGED <<now, processed_events, bot_user_id, verify_result, dedup_call,
                   cache, detail_level, summarize_call, direct_vars>>

\* The job runs process_pdf_sync to its end, the outside world behaving in one
\* of the ways of envs.
FinishJob(i, envs) ==
    /\ jobs[i].state = "running"
    /\ \E out \in {ProcessPdfSync(jobs[i].args, cache, detail_level, o) : o \in envs} :
          /\ jobs' = [jobs EXCEPT ![i].state = "done"]
          /\ job_run' = <<[job |-> jobs[i].args, run |-> out.run]>>
          /\ cache' = out.files
          /\ request' = <<>>
          /\ response' = <<>>
          /\ effects' = NoEffects
          /\ UNCHANGED <<now, processed_events, bot_user_id, verify_result, dedup_call,
                         detail_level, summarize_call, direct_vars>>

\* The jobs of Spec succeed, or fail at the download or at the post; SpecJobs
\* below runs them under every environment of JobEnvs.
WebhookJobEnvs ==
    {JobEnv(d, "ok", QuietResponses, "ok", "ok", p, QuietPost) :
        d \in {"ok", "RequestException"},
        p \in {QuietPost, Transient(0, "not_in_channel")}}

Next ==
    \/ \E req \in HandlerRequests : SlackEvents(req)
    \/ \E i \in 1..Len(jobs) : StartJob(i)
    \/ \E i \in 1..Len(jobs) : FinishJob(i, WebhookJobEnvs)

Spec == Init /\ [][Next]_vars

(***************************************************************************)
(* Properties of the webhook endpoint                                      *)
(***************************************************************************)

Handled == Len(request) = 1

\* What verify_request said of the request answered last.
Verdict ==
    VerifyRequest(SigningSecret, now, request[1].timestamp, request[1].body,
                  request[1].signature)

Accepted == Handled /\ Verdict = Returned(TRUE)
Rejected == Handled /\ Verdict = Returned(FALSE)

Text == request[1].body.text

SideEffects == {"reactions_add", "chat_postMessage"}

CallsOf(calls, apis) == {i \in 1..Len(calls) : calls[i].api \in apis}

Malformed ==
    \/ request[1].body.enc # "utf8"
    \/ Text.shape # "object"
    \/ Text.type = "event_callback" /\ Text.event.shape = "string"
    \/ Text.type = "event_callback" /\ Text.event.channel_id = "unhashable"

\* C4: every request is answered 200, 401 or 400: 401 when verification
\* fails, 400 when it passes and the body is malformed, 200 otherwise; none
\* ends in an unhandled error.
C4_StatusIs200Or401Or400 ==
    Handled =>
        /\ response[1].status \in {200, 401, 400}
        /\ response[1].status = 401 <=> Verdict # Returned(TRUE)
        /\ response[1].status = 400 <=> (Verdict = Returned(TRUE) /\ Malformed)

\* The cases of C4 the code gets wrong: a request ended in an unhandled error.
C4_UnhandledError == Handled /\ response[1].status = 500

\* C5: a verified url_verification request gets its challenge back and does
\* nothing else, also when the payload carries an event.
C5_UrlVerificationIsTerminal ==
    (Accepted /\ Text.shape = "object" /\ Text.type = "url_verification") =>
        /\ response[1] = [status |-> 200, body |-> Text.challenge]
        /\ effects = NoEffects

\* A url_verification payload that also carries a file_shared event for a new
\* PDF in a watched channel was answered.
C5_Witness ==
    /\ Accepted
    /\ Text.type = "url_verification"
    /\ Text.event = Event("object", "file_shared", "F1", "C1", "e1")
    /\ ~Has(processed_events, "F1")
    /\ response[1].body = "challenge-token"

\* A PDF as the specification defines it: filetype pdf, or a name that ends in
\* .pdf whatever the case of its letters.
PdfSuffixes ==
    {<<".", p, d, f>> : p \in {"p", "P"}, d \in {"d", "D"}, f \in {"f", "F"}}

SpecifiedPdf(file_data) ==
    \/ file_data.filetype = "pdf"
    \/ /\ file_data.name # <<>>
       /\ \E suffix \in PdfSuffixes : EndsWith(file_data.name[1], suffix)

\* C6: a reaction, a status message or a job happens only for a verified
\* event_callback request with a file_shared event, in a watched channel, for
\* a file_id not recorded before, whose metadata says PDF.
C6_SideEffectsOnlyForNewPdf ==
    (Handled /\ (CallsOf(effects.calls, SideEffects) # {} \/ effects.enqueued # <<>>)) =>
        /\ Accepted
        /\ Text.shape = "object"
        /\ Text.type = "event_callback"
        /\ Text.event.shape = "object"
        /\ Text.event.type = "file_shared"
        /\ Text.event.channel_id \in ChannelIds
        /\ effects.dedup_added
        /\ Has(processed_events, Text.event.file_id)
        /\ SpecifiedPdf(FileStore(Text.event.file_id))

\* A file named B.PDF of filetype binary got its reaction, status and job.
C6_Witness ==
    /\ Accepted
    /\ Text = FileSharedText("F2", "C1")
    /\ Len(effects.calls) = 4
    /\ Len(effects.enqueued) = 1

\* A verified delivery of a file_shared event, from any channel, whose file_id
\* was recorded by an earlier delivery.
Duplicate ==
    /\ Accepted
    /\ Text.shape = "object"
    /\ Text.type = "event_callback"
    /\ Text.event.shape = "object"
    /\ Text.event.type = "file_shared"
    /\ Text.event.channel_id # "unhashable"
    /\ Has(processed_events, Text.event.file_id)
    /\ ~effects.dedup_added

\* C7: over any sequence of deliveries at most one job is ever enqueued for a
\* file, and a delivery for a file_id already recorded is answered 200 with
\* no reaction, no status message and no job.
C7_AtMostOneJobPerFile ==
    /\ \A i, j \in 1..Len(jobs) :
          jobs[i].args.pdf_url = jobs[j].args.pdf_url => i = j
    /\ Duplicate => /\ response[1].status = 200
                    /\ effects = NoEffects

\* A second delivery of a file whose job is already in the executor.
C7_Witness ==
    /\ Duplicate
    /\ Text.event.file_id = "F1"
    /\ \E i \in 1..Len(jobs) : jobs[i].args.pdf_url = "url-F1"

\* The thread target as the specification resolves it.
SpecifiedThreadTs(file_data, channel, event_ts) ==
    IF Len(file_data.shares.public[channel]) > 0
    THEN Head(file_data.shares.public[channel])
    ELSE IF Len(file_data.shares.private[channel]) > 0
    THEN Head(file_data.shares.private[channel])
    ELSE event_ts

\* C10: the thread target is the first public share of the event's channel,
\* else the first private share, else the event's event_ts; the reaction, the
\* status message and the job carry that value, and every reply of the job goes
\* to the job's thread target.
C10_ThreadTarget ==
    /\ (Handled /\ CallsOf(effects.calls, SideEffects) # {}) =>
          LET target == SpecifiedThreadTs(FileStore(Text.event.file_id),
                                          Text.event.channel_id, Text.event.event_ts)
          IN  /\ \A i \in CallsOf(effects.calls, SideEffects) :
                    /\ effects.calls[i].ts = target
                    /\ effects.calls[i].channel = Text.event.channel_id
              /\ \A i \in 1..Len(effects.enqueued) :
                    /\ effects.enqueued[i].thread_ts = target
                    /\ effects.enqueued[i].channel = Text.event.channel_id
    /\ \A k \in 1..Len(job_run) :
          \A i \in CallsOf(job_run[k].run.calls, {"chat_postMessage"}) :
              /\ job_run[k].run.calls[i].ts = job_run[k].job.thread_ts
              /\ job_run[k].run.calls[i].channel = job_run[k].job.channel

\* A file with a public and a private share in the channel was accepted
\* (public wins), and a job replied to a private share's timestamp.
C10_Witness ==
    \/ /\ Accepted
       /\ Text = FileSharedText("F1", "C1")
       /\ Len(effects.enqueued) = 1
       /\ effects.enqueued[1].thread_ts = "p1"
    \/ /\ Len(job_run) = 1
       /\ job_run[1].job.thread_ts = "q2"
       /\ CallsOf(job_run[1].run.calls, {"chat_postMessage"}) # {}

\* The methods of the calls, in the order the handler made them.
Apis(calls) == [i \in 1..Len(calls) |-> calls[i].api]

\* C11: for an accepted PDF event the handler adds the reaction, then posts
\* the status message, then enqueues the job: never the job before the status
\* post has returned, and the job carries the timestamp that post returned.
C11_ReactionThenStatusThenJob ==
    Handled =>
        /\ \A i, j \in 1..Len(effects.calls) :
              /\ (effects.calls[i].api = "reactions_add"
                  /\ effects.calls[j].api \in {"chat_postMessage", "add_task"}) => i < j
              /\ (effects.calls[i].api = "chat_postMessage"
                  /\ effects.calls[j].api = "add_task") => i < j
        /\ effects.enqueued # <<>> =>
              /\ Apis(effects.calls) =
                    <<"files_info", "reactions_add", "chat_postMessage", "add_task">>
              /\ Len(effects.enqueued) = 1
              /\ effects.enqueued[1].status_ts =
                    IF effects.calls[3].outcome = "ok"
                    THEN StatusTs(effects.enqueued[1].pdf_url)
                    ELSE None

\* A PDF was accepted and its job carries the timestamp of the status message.
C11_Witness ==
    /\ Accepted
    /\ Text = FileSharedText("F1", "C1")
    /\ Apis(effects.calls) = <<"files_info", "reactions_add", "chat_postMessage", "add_task">>
    /\ effects.enqueued[1].status_ts = "st1"

\* A verified file_shared event of a watched channel, for a file_id not
\* recorded before, whose metadata lookup succeeded and says PDF.
AcceptedPdf ==
    /\ Accepted
    /\ Text.shape = "object"
    /\ Text.type = "event_callback"
    /\ Text.event.shape = "object"
    /\ Text.event.type = "file_shared"
    /\ Text.event.channel_id \in ChannelIds
    /\ effects.dedup_added
    /\ effects.calls # <<>>
    /\ effects.calls[1].outcome = "ok"
    /\ SpecifiedPdf(FileStore(Text.event.file_id))

\* C12: a failure of the reaction call or of the status post is not fatal:
\* whatever way they fail the job of an accepted PDF event is enqueued, with
\* status timestamp None when the status post failed; "already reacted" is a
\* successful reaction.
C12_ReactionAndStatusFailuresNonFatal ==
    AcceptedPdf =>
        /\ Len(effects.enqueued) = 1
        /\ Len(effects.calls) >= 3
        /\ effects.calls[3].outcome # "ok" => effects.enqueued[1].status_ts = None
        /\ effects.calls[3].outcome = "ok" => effects.enqueued[1].status_ts # None

\* The case of C12 the code gets wrong: the reaction call, or the status post,
\* failed with something else than a Slack API error, and no job was enqueued.
C12_FailureDropsJob ==
    /\ AcceptedPdf
    /\ effects.enqueued = <<>>
    /\ effects.calls[Len(effects.calls)].outcome = "Exception"

\* The failures the code does survive: Slack refused the reaction and the
\* status message, and the job was enqueued without a status timestamp.
C12_SlackErrorsSurvived ==
    /\ AcceptedPdf
    /\ effects.calls[2].outcome = "SlackApiError"
    /\ effects.calls[3].outcome = "SlackApiError"
    /\ Len(effects.enqueued) = 1
    /\ effects.enqueued[1].status_ts = None

\* The calls of the request-handling path.
HandlerApis == {"files_info", "reactions_add", "chat_postMessage", "add_task"}

\* C13: the response does not wait on the processing of the PDF: the handler
\* answers 200 when it has only enqueued the job, which has not started; it
\* makes no download, extraction or summarization call; so the response is
\* the same whatever the job does later.
C13_ResponseDoesNotWaitForJob ==
    Handled =>
        /\ \A i \in 1..Len(effects.calls) : effects.calls[i].api \in HandlerApis
        /\ effects.enqueued # <<>> =>
              /\ response[1] = [status |-> 200, body |-> None]
              /\ Len(jobs) >= 1
              /\ jobs[Len(jobs)] = QueuedJob(effects.enqueued[1])

\* A PDF shared to the second channel was answered while its job waits.
C13_Witness ==
    /\ Accepted
    /\ Text = FileSharedText("F1", "C2")
    /\ response[1].status = 200
    /\ Len(effects.enqueued) = 1
    /\ jobs[Len(jobs)].state = "queued"

\* A verified file_shared delivery of a watched channel whose file_id was
\* recorded by this delivery.
Recorded ==
    /\ Accepted
    /\ Text.shape = "object"
    /\ Text.type = "event_callback"
    /\ Text.event.shape = "object"
    /\ Text.event.type = "file_shared"
    /\ Text.event.channel_id \in ChannelIds
    /\ effects.calls # <<>>
    /\ effects.calls[1].api = "files_info"

\* The lookup raised, or the reaction or status step raised, or the metadata
\* says no PDF.
LookupRaised == effects.calls[1].outcome # "ok"
StepRaised ==
    /\ effects.calls[Len(effects.calls)].api \in SideEffects
    /\ effects.calls[Len(effects.calls)].outcome = "Exception"
NotPdf == LookupRaised = FALSE /\ ~SpecifiedPdf(FileStore(Text.event.file_id))

\* The jobs ever enqueued for a file.
JobsOf(queue, file_id) ==
    {i \in 1..Len(queue) : queue[i].args.pdf_url = FileStore(file_id).url_private}

\* C31: the handler records the file_id before the metadata lookup and never
\* removes it: a delivery whose lookup raises, whose reaction or status step
\* raises, or whose file is no PDF leaves the file_id recorded and enqueues no
\* job; a recorded file_id stays recorded, its later deliveries are discarded
\* with no effect, and no job is enqueued for it any more.
C31_FailedDeliveryBlocksFile ==
    /\ []((Recorded /\ (LookupRaised \/ StepRaised \/ NotPdf)) =>
             /\ Has(processed_events, Text.event.file_id)
             /\ effects.dedup_added
             /\ effects.enqueued = <<>>
             /\ JobsOf(jobs, Text.event.file_id) = {})
    /\ [](Duplicate => effects = NoEffects)
    /\ [][\A id \in processed_events.named :
             /\ Has(processed_events', id)
             /\ JobsOf(jobs', id) = JobsOf(jobs, id)]_vars

\* C31 happens: a PDF whose first delivery failed at the lookup was delivered
\* again and discarded as a duplicate; there is no job for it.
C31_Witness ==
    /\ Duplicate
    /\ Text.event.file_id = "F1"
    /\ SpecifiedPdf(FileStore("F1"))
    /\ response[1].status = 200
    /\ JobsOf(jobs, "F1") = {}

(***************************************************************************)
(* SpecJobs: accepted PDFs and their jobs under every environment          *)
(***************************************************************************)

\* Deliveries of the two PDFs, through either watched channel.
JobRequests ==
    {Signed(StartTime, FileSharedText("F1", "C1")),
     Signed(StartTime, FileSharedText("F1", "C2")),
     Signed(StartTime, FileSharedText("F2", "C1"))}

NextJobs ==
    \/ \E req \in JobRequests : SlackEvents(req)
    \/ \E i \in 1..Len(jobs) : StartJob(i)
    \/ \E i \in 1..Len(jobs) : FinishJob(i, JobEnvs)

SpecJobs == Init /\ [][NextJobs]_vars

(***************************************************************************)
(* Properties of the jobs                                                  *)
(***************************************************************************)

JobRan == Len(job_run) = 1
TheJob == job_run[1].job
TheRun == job_run[1].run
RunCalls == job_run[1].run.calls

\* Some call of the method was answered "ok".
Succeeded(api) == \E i \in CallsOf(RunCalls, {api}) : RunCalls[i].outcome = "ok"

\* The summarizer was called and got a summary: from the API, or without
\* asking the API.
Summarizing ==
    /\ CallsOf(RunCalls, {"summarize"}) # {}
    /\ Succeeded("generate_content") \/ CallsOf(RunCalls, {"generate_content"}) = {}

\* The place of each call in the specified order of a job.
Stage(api) ==
    CASE api = "requests.get" -> 1
      [] api = "extract_text" -> 2
      [] api \in {"summarize", "generate_content", "cache_write"} -> 3
      [] api = "format_summary_blocks" -> 4
      [] api = "chat_delete" -> 5
      [] api = "chat_postMessage" -> 6
      [] OTHER -> 7

\* The attempts to post the summary, and those Slack accepted.
SummaryPosts ==
    {i \in CallsOf(RunCalls, {"chat_postMessage"}) : RunCalls[i].text = SummaryText}
SummaryPosted == {i \in SummaryPosts : RunCalls[i].outcome = "ok"}

\* C14: in a job whose fetch, extraction and summarization succeed the steps
\* come in the order fetch, extract, summarize, format, delete the status
\* message, post the reply; the status message is deleted only if there is
\* one and only after the summary was obtained; one final reply, and never
\* more, is posted to the job's thread.
C14_StepsInOrder ==
    (JobRan /\ Succeeded("requests.get") /\ Succeeded("extract_text") /\ Summarizing) =>
        /\ \A i, j \in 1..Len(RunCalls) :
              i < j => Stage(RunCalls[i].api) <= Stage(RunCalls[j].api)
        /\ \A api \in {"requests.get", "extract_text", "summarize", "format_summary_blocks"} :
              Cardinality(CallsOf(RunCalls, {api})) = 1
        /\ Cardinality(CallsOf(RunCalls, {"chat_delete"})) =
              IF TheJob.status_ts # None THEN 1 ELSE 0
        /\ \A i \in CallsOf(RunCalls, {"chat_delete"}) :
              /\ RunCalls[i].ts = TheJob.status_ts
              /\ RunCalls[i].channel = TheJob.channel
        /\ \A i \in SummaryPosts :
              /\ RunCalls[i].ts = TheJob.thread_ts
              /\ RunCalls[i].channel = TheJob.channel
        /\ Cardinality(SummaryPosted) <= 1
        /\ (\A i \in 1..Len(RunCalls) : RunCalls[i].outcome = "ok") =>
              /\ Cardinality(SummaryPosts) = 1
              /\ SummaryPosted = {Len(RunCalls)}
              /\ TheRun.result = "posted"

\* The end-to-end scenario: a job with a status message fetched, extracted,
\* summarized on a cache miss, deleted the status message and posted.
C14_Witness ==
    /\ JobRan
    /\ TheJob.status_ts = "st1"
    /\ TheRun.result = "posted"
    /\ Apis(RunCalls) = <<"requests.get", "extract_text", "summarize", "generate_content",
                          "cache_write", "format_summary_blocks", "chat_delete",
                          "chat_postMessage">>
    /\ \A i \in 1..Len(RunCalls) : RunCalls[i].outcome = "ok"

\* The calls that report an error to the thread: edits of the status message
\* and replies that do not carry the summary.
ErrorEdits == CallsOf(RunCalls, {"chat_update"})
ErrorReplies ==
    {i \in CallsOf(RunCalls, {"chat_postMessage"}) : RunCalls[i].text # SummaryText}

FailureClasses == {"parse_error", "summary_error", "unexpected"}

\* C15: a job that fails with a fetch or extract error, a summary error or an
\* unexpected exception notifies the user one way: with a status message, by
\* one edit of it and no reply; without, by one error reply (one call of
\* post_thread_reply: attempts with one text, at most one accepted) and no
\* edit; and no summary reply is posted.
C15_OneErrorNotification ==
    (JobRan /\ TheRun.result \in FailureClasses) =>
        /\ SummaryPosted = {}
        /\ TheJob.status_ts # None =>
              /\ Cardinality(ErrorEdits) = 1
              /\ ErrorReplies = {}
              /\ \A i \in ErrorEdits :
                    /\ RunCalls[i].ts = TheJob.status_ts
                    /\ RunCalls[i].channel = TheJob.channel
                    /\ RunCalls[i].text # SummaryText
        /\ TheJob.status_ts = None =>
              /\ ErrorEdits = {}
              /\ ErrorReplies # {}
              /\ Cardinality(ErrorReplies) <= MaxRetries
              /\ \A i, j \in ErrorReplies :
                    /\ RunCalls[i].text = RunCalls[j].text
                    /\ RunCalls[i].ts = TheJob.thread_ts
                    /\ RunCalls[i].channel = TheJob.channel
                    /\ (RunCalls[i].outcome = "ok" /\ i # j) => j < i

\* Jobs of each of the three classes reported, with and without a status
\* message.
C15_Witness ==
    /\ JobRan
    /\ \/ TheRun.result = "unexpected" /\ TheJob.status_ts = "st1"
          /\ Cardinality(ErrorEdits) = 1
       \/ TheRun.result = "parse_error" /\ TheJob.status_ts = None
          /\ Cardinality(ErrorReplies) = MaxRetries

\* The text a summary error is reported with, written out.
QuotaText(error) ==
    "Summary error, check the API quota: Failed to generate summary: " \o error

\* The texts a fetch or extract error is reported with, written out.
ParseTexts ==
    {"PDF parse error: Download timed out",
     "PDF parse error: Failed to download PDF",
     "PDF parse error: No text could be extracted from PDF",
     "PDF parse error: Failed to extract text from PDF"}

GenerateCalls == CallsOf(RunCalls, {"generate_content"})

\* The last attempt of the run to call the generation API.
LastGenerateCall == CHOOSE i \in GenerateCalls : \A j \in GenerateCalls : j <= i

\* Every one of the max_retries attempts failed.
RetriesExhausted ==
    /\ Cardinality(GenerateCalls) = MaxRetries
    /\ \A i \in GenerateCalls : RunCalls[i].outcome # "ok"

\* The download or the extraction failed in a way the parser reports.
FetchOrExtractFailed ==
    \/ \E i \in CallsOf(RunCalls, {"requests.get"}) :
          RunCalls[i].outcome \in {"Timeout", "RequestException"}
    \/ \E i \in CallsOf(RunCalls, {"extract_text"}) : RunCalls[i].outcome # "ok"

\* C16: when the generation API fails on every one of the max_retries attempts
\* the job ends with the summary error, whose report carries the API-quota
\* text with the last attempt's error in it, not the parse text nor the
\* generic one; when the download or extraction fails the report carries the
\* parse text.
C16_ErrorTextMatchesFailure ==
    JobRan =>
        /\ RetriesExhausted =>
              /\ TheRun.result = "summary_error"
              /\ ErrorEdits \cup ErrorReplies # {}
              /\ \A i \in ErrorEdits \cup ErrorReplies :
                    RunCalls[i].text = QuotaText(RunCalls[LastGenerateCall].outcome)
        /\ FetchOrExtractFailed =>
              /\ TheRun.result = "parse_error"
              /\ ErrorEdits \cup ErrorReplies # {}
              /\ \A i \in ErrorEdits \cup ErrorReplies : RunCalls[i].text \in ParseTexts
              /\ CallsOf(RunCalls, {"summarize"}) = {}

\* The retry-exhaustion scenario: three attempts, the first two answered
\* without text and the last one with an exception, and the status message
\* edited with the quota text naming that exception.
C16_Witness ==
    /\ JobRan
    /\ RetriesExhausted
    /\ TheJob.status_ts = "st1"
    /\ \E i \in GenerateCalls : RunCalls[i].outcome = EmptyResponse
    /\ RunCalls[LastGenerateCall].outcome = "ResourceExhausted"
    /\ \E i \in ErrorEdits : RunCalls[i].text = QuotaText("ResourceExhausted")

\* post_thread_reply of the summary ended in SlackError: an attempt refused for
\* good, or max_retries attempts refused.
SummaryPostFailed ==
    /\ SummaryPosted = {}
    /\ \/ \E i \in SummaryPosts : RunCalls[i].outcome \in PermanentErrors
       \/ /\ Cardinality(SummaryPosts) = MaxRetries
          /\ \A i \in SummaryPosts : RunCalls[i].outcome = "SlackApiError"

\* C17: when posting the final reply fails with a Slack posting error the job
\* ends there: process_pdf_sync returns, the failed attempt is the last call
\* of the job, no status message is edited and no other text is posted.
C17_PostFailureIsLoggedOnly ==
    (JobRan /\ SummaryPostFailed) =>
        /\ TheRun.result = "slack_error"
        /\ TheRun.raised = None
        /\ ErrorEdits = {}
        /\ ErrorReplies = {}
        /\ Len(RunCalls) \in SummaryPosts

\* The final reply failed after its retries, and after the status message was
\* deleted.
C17_Witness ==
    /\ JobRan
    /\ SummaryPostFailed
    /\ Cardinality(SummaryPosts) = MaxRetries
    /\ TheJob.status_ts = "st1"
    /\ CallsOf(RunCalls, {"chat_delete"}) # {}

\* C18: whatever fails, and whether or not there is a status message,
\* process_pdf_sync returns normally, also when the edit of the status message
\* or the error reply fails: no exception reaches the worker pool.
C18_NoExceptionLeavesJob == JobRan => TheRun.raised = None

\* The case of C18 the code gets wrong: the report of a parse or summary error
\* raised, and the exception left process_pdf_sync.
C18_ReportErrorEscapes ==
    /\ JobRan
    /\ TheRun.result \in {"parse_error", "summary_error"}
    /\ TheRun.raised = "SlackError"
    /\ TheJob.status_ts = None

\* The deletions and edits of the status message that Slack did not carry out.
FailedStatusCalls ==
    {i \in CallsOf(RunCalls, {"chat_delete", "chat_update"}) : RunCalls[i].outcome # "ok"}

\* C24: update_message and delete_message return whatever way the Slack call
\* fails: after a failed deletion of the status message the job goes on to
\* post the final reply, and a failed edit of the status message raises
\* nothing out of the handler of a parse or summary error.
C24_StatusCallsNeverRaise ==
    JobRan =>
        \A i \in FailedStatusCalls :
            /\ RunCalls[i].api = "chat_delete" => \E j \in SummaryPosts : i < j
            /\ RunCalls[i].api = "chat_update" => TheRun.raised = None

\* The case of C24 the code gets wrong: the deletion of the status message
\* failed with an error that is no SlackApiError (a timeout, a refused
\* connection), delete_message raised it, and the summary was never posted.
C24_FailedDeletionStopsReply ==
    /\ JobRan
    /\ Summarizing
    /\ \E i \in CallsOf(RunCalls, {"chat_delete"}) : RunCalls[i].outcome = "Exception"
    /\ SummaryPosts = {}
    /\ TheRun.result = "unexpected"

\* The deletions and edits issued for the job's status message.
StatusCalls ==
    {i \in CallsOf(RunCalls, {"chat_delete", "chat_update"}) :
        /\ RunCalls[i].ts = TheJob.status_ts
        /\ RunCalls[i].channel = TheJob.channel}

\* The error texts of lines 186, 195 and 208.
ErrorTexts ==
    {ParseErrorText(m) : m \in {"Download timed out", "Failed to download PDF",
                                "No text could be extracted from PDF",
                                "Failed to extract text from PDF"}}
    \cup {SummaryErrorText(SummaryErrorMessage(e)) :
            e \in {"ResourceExhausted", "Empty response from Gemini"}}
    \cup {UnexpectedErrorText(e) : e \in {"Exception", "TypeError"}}

\* C32: a job that was given a status timestamp has, when it ends, issued
\* exactly one call for that status message: a deletion when it posted the
\* summary or failed at posting it, an edit with an error text on every other
\* failure path.
C32_StatusMessageTouchedOnce ==
    (JobRan /\ TheJob.status_ts # None) =>
        /\ Cardinality(StatusCalls) = 1
        /\ \A i \in StatusCalls :
              IF SummaryPosts # {}
              THEN RunCalls[i].api = "chat_delete"
              ELSE /\ RunCalls[i].api = "chat_update"
                   /\ RunCalls[i].text \in ErrorTexts

\* The case of C32 the code gets wrong: the status message was deleted, the
\* post of the summary failed with an error that is no SlackApiError, and the
\* job then edited the message it had deleted.
C32_DeletedThenEdited ==
    /\ JobRan
    /\ TheJob.status_ts = "st1"
    /\ \E i, j \in StatusCalls :
          /\ i < j
          /\ RunCalls[i].api = "chat_delete"
          /\ RunCalls[i].outcome = "ok"
          /\ RunCalls[j].api = "chat_update"
          /\ RunCalls[j].text = UnexpectedErrorText("Exception")
    /\ \E k \in SummaryPosts : RunCalls[k].outcome = "Exception"

\* What the code does keep of C32: no job with a status timestamp ends without
\* a call for its status message, and none issues two deletions or two edits.
C32_NeverUntouched ==
    (JobRan /\ TheJob.status_ts # None) =>
        /\ StatusCalls # {}
        /\ Cardinality({i \in StatusCalls : RunCalls[i].api = "chat_delete"}) <= 1
        /\ Cardinality({i \in StatusCalls : RunCalls[i].api = "chat_update"}) <= 1

\* A PDF shared once, and its job under every environment.
RunRequests == {Signed(StartTime, FileSharedText("F1", "C1"))}

RunSlots == 1..Cardinality(RunRequests)

RunFinish(i) == i \in DOMAIN jobs /\ FinishJob(i, JobEnvs)

NextRuns ==
    \/ \E req \in RunRequests : SlackEvents(req)
    \/ \E i \in 1..Len(jobs) : StartJob(i)
    \/ \E i \in RunSlots : RunFinish(i)

SpecRuns == Init /\ [][NextRuns]_vars

\* A job whose external calls all return or raise comes to its end.
FairSpecRuns == SpecRuns /\ \A i \in RunSlots : WF_vars(RunFinish(i))

JobStarted(i) == i \in DOMAIN jobs /\ jobs[i].state = "running"
JobTerminal(i) == i \in DOMAIN jobs /\ jobs[i].state = "done"

\* C28: every started job ends, in success or in one of the failures; a job
\* makes at most one download request, at most max_retries calls of the
\* generation API, at most max_retries attempts to post the summary and at
\* most max_retries attempts to post an error reply, one deletion and one
\* edit of the status message at most.
C28_StartedJobsEndWithinBounds ==
    /\ [](JobRan =>
            /\ TheRun.result \in {"posted", "parse_error", "summary_error",
                                   "slack_error", "unexpected"}
            /\ Cardinality(CallsOf(RunCalls, {"requests.get"})) <= 1
            /\ Cardinality(CallsOf(RunCalls, {"extract_text"})) <= 1
            /\ Cardinality(CallsOf(RunCalls, {"generate_content"})) <= 3
            /\ Cardinality(SummaryPosts) <= 3
            /\ Cardinality(ErrorReplies) <= 3
            /\ Cardinality(CallsOf(RunCalls, {"chat_delete"})) <= 1
            /\ Cardinality(CallsOf(RunCalls, {"chat_update"})) <= 1)
    /\ \A i \in RunSlots : JobStarted(i) ~> JobTerminal(i)

\* C28 happens: a job ended after three failed attempts to post its summary.
C28_Witness ==
    /\ JobRan
    /\ TheRun.result = "slack_error"
    /\ Cardinality(SummaryPosts) = 3
    /\ \E i \in DOMAIN jobs : jobs[i].state = "done" /\ jobs[i].args = TheJob

(***************************************************************************)
(* SpecPool: more jobs than the executor has workers                       *)
(***************************************************************************)

\* The number of PDFs shared.
MaxPoolJobs == 5

PoolSlots == 1..Len(PoolFiles)

\* The next PDF is shared in a watched channel and Slack answers every call
\* of the handler; what failing calls do to a delivery is the matter of Spec.
PoolDeliver ==
    /\ Len(jobs) < MaxPoolJobs
    /\ Len(jobs) < Len(PoolFiles)
    /\ SlackEvents(Signed(StartTime, FileSharedText(PoolFiles[Len(jobs) + 1], "C1")))
    /\ \A k \in 1..Len(effects'.calls) : effects'.calls[k].outcome = "ok"

\* Every external call of a pool job succeeds; SpecJobs runs the jobs under
\* every environment.
PoolJobEnvs == {JobEnv("ok", "ok", QuietResponses, "ok", "ok", QuietPost, QuietPost)}

PoolStart(i) == i \in DOMAIN jobs /\ StartJob(i)
PoolFinish(i) == i \in DOMAIN jobs /\ FinishJob(i, PoolJobEnvs)

NextPool ==
    \/ PoolDeliver
    \/ \E i \in PoolSlots : PoolStart(i)
    \/ \E i \in PoolSlots : PoolFinish(i)

SpecPool == Init /\ [][NextPool]_vars

\* A free worker thread of the ThreadPoolExecutor takes the next work item,
\* and a job whose external calls all return or raise comes to its end.
FairSpecPool ==
    /\ SpecPool
    /\ \A i \in PoolSlots : WF_vars(PoolStart(i)) /\ WF_vars(PoolFinish(i))

Queued == {i \in 1..Len(jobs) : jobs[i].state = "queued"}

JobEnqueued(i) == i \in DOMAIN jobs
JobEnded(i) == i \in DOMAIN jobs /\ jobs[i].state = "done"

\* C27: never more than 4 jobs run process_pdf_sync at a time; a job starts
\* only when fewer than 4 are running, so further jobs wait; a job only goes
\* from queued to running and from running to done, so none runs twice; and
\* every enqueued job is run to its end.
C27_PoolOfFourRunsEveryJobOnce ==
    /\ [](Cardinality(Running) <= 4)
    /\ [][\A i \in DOMAIN jobs :
            jobs'[i].state # jobs[i].state =>
                \/ /\ jobs[i].state = "queued"
                   /\ jobs'[i].state = "running"
                   /\ Cardinality(Running) < 4
                \/ /\ jobs[i].state = "running"
                   /\ jobs'[i].state = "done"
                   /\ Len(job_run') = 1
                   /\ job_run'[1].job = jobs[i].args]_vars
    /\ \A i \in PoolSlots : JobEnqueued(i) ~> JobEnded(i)

\* C27 happens: four jobs are running and a fifth waits in the queue.
C27_Witness ==
    /\ Cardinality(Running) = 4
    /\ Queued # {}

(***************************************************************************)
(* SpecSummarize: summarize and set_detail_level called directly           *)
(***************************************************************************)

PaperTexts == {"T1", "T2"}

\* The levels asked of set_detail_level; "verbose" is no key of PROMPTS.
RequestedLevels == {"short", "normal", "verbose"}

\* What the API and the cache directory do to one call: every way the
\* attempts can go with a write that works, and every way the write can go.
SummarizeEnvs ==
    {[responses |-> r, save |-> "ok"] : r \in ResponseSequences}
    \cup {[responses |-> QuietResponses, save |-> w] : w \in SaveOutcomes}

\* summarize_call keeps the call made last: its text and level, the cache
\* file it could read for them (<<>>: none), and what Summarize says it did.
CallSummarize(text, env) ==
    LET out == Summarize(CacheEnabled, cache, detail_level, model_name, text,
                         env.responses, env.save)
        found == {f \in cache : f.path = CachePath(Sha256(text), detail_level)
                                /\ f.complete}
    IN  /\ summarize_call' =
              <<[text |-> text, level |-> detail_level, model |-> model_name,
                 responses |-> env.responses,
                 entry |-> IF found = {} THEN <<>> ELSE <<CHOOSE f \in found : TRUE>>,
                 summary |-> out.summary, raised |-> out.raised,
                 last_error |-> out.last_error, calls |-> out.calls,
                 wrote |-> out.files # cache]>>
        /\ cache' = out.files
        /\ level_call' = <<>>
        /\ UNCHANGED <<now, processed_events, bot_user_id, request, response, effects,
                       jobs, job_run, verify_result, dedup_call, detail_level,
                       model_name, post_call, format_call, entry_file, threads>>

\* level_call keeps the level asked for, the level before the call and the
\* exception that left set_detail_level.
CallSetDetailLevel(requested) ==
    LET out == SetDetailLevelTo(detail_level, requested) IN
    /\ detail_level' = out.level
    /\ level_call' = <<[requested |-> requested, before |-> detail_level,
                        raised |-> out.raised]>>
    /\ summarize_call' = <<>>
    /\ UNCHANGED <<now, processed_events, bot_user_id, request, response, effects,
                   jobs, job_run, verify_result, dedup_call, cache,
                   model_name, post_call, format_call, entry_file, threads>>

\* The calls that matter to what the cache directory holds: each text the
\* API can return at once, one retried call, one failed call, and each way
\* the write can go.
CacheEnvs ==
    {[responses |-> [i \in 1..MaxRetries |-> t], save |-> "ok"] : t \in ApiTexts}
    \cup {[responses |-> [i \in 1..MaxRetries |->
                              IF i = 1 THEN ApiReturns(<<>>) ELSE ApiReturns(<<"R">>)],
           save |-> "ok"],
          [responses |-> AllRaise, save |-> "ok"]}
    \cup {[responses |-> QuietResponses, save |-> w] : w \in SaveOutcomes}

NextSummarize ==
    \/ \E text \in PaperTexts, env \in CacheEnvs : CallSummarize(text, env)
    \/ \E requested \in RequestedLevels : CallSetDetailLevel(requested)

SpecSummarize == Init /\ [][NextSummarize]_vars

\* The attempts of a call to reach the generation API, and its cache writes.
ApiCalls(call) == CallsOf(call.calls, {"generate_content"})
CacheWrites(call) == CallsOf(call.calls, {"cache_write"})

\* C19: with the cache enabled, a summarize call that finds a cache entry for
\* sha256(text) and the current detail level returns the stored summary, calls
\* the generation API zero times and writes nothing to the cache.
C19_CacheHitCallsNoApi ==
    (CacheEnabled /\ Len(summarize_call) = 1 /\ summarize_call[1].entry # <<>>) =>
        /\ summarize_call[1].raised = None
        /\ summarize_call[1].summary = <<summarize_call[1].entry[1].summary>>
        /\ ApiCalls(summarize_call[1]) = {}
        /\ CacheWrites(summarize_call[1]) = {}
        /\ ~summarize_call[1].wrote

\* The case of C19 the code gets wrong: the entry found holds an empty
\* summary (stored by an earlier call), and the API was called.
C19_EmptyEntryIsNoHit ==
    /\ Len(summarize_call) = 1
    /\ summarize_call[1].entry # <<>>
    /\ summarize_call[1].entry[1].summary = <<>>
    /\ ApiCalls(summarize_call[1]) # {}

\* The hits the code does serve: an entry with a summary in it, returned with
\* no call and no write.
C19_HitServed ==
    /\ Len(summarize_call) = 1
    /\ summarize_call[1].entry # <<>>
    /\ summarize_call[1].summary = <<(<<"S">>)>>
    /\ summarize_call[1].calls = <<>>

\* The call ran with an API that answered every attempt with a text and a
\* cache directory that took every write.
Undisturbed(call) ==
    /\ call.raised = None
    /\ \A i \in 1..Len(call.calls) : call.calls[i].outcome = "ok"

\* C20: two summarize calls in a row with the same text and the same detail
\* level (the API and the cache directory working) call the generation API at
\* most once in total, and the second returns exactly what the first returned.
C20_CacheRoundTrip ==
    [][(/\ Len(summarize_call) = 1
        /\ Len(summarize_call') = 1
        /\ summarize_call'[1].text = summarize_call[1].text
        /\ summarize_call'[1].level = summarize_call[1].level
        /\ Undisturbed(summarize_call[1])
        /\ Undisturbed(summarize_call'[1]))
       => /\ Cardinality(ApiCalls(summarize_call[1]))
               + Cardinality(ApiCalls(summarize_call'[1])) <= 1
          /\ summarize_call'[1].summary = summarize_call[1].summary
      ]_vars

\* The case of C20 the code gets wrong: a call returned an empty summary and
\* stored it, and the same call made again asked the API again and returned
\* another text.
C20_SecondCallGeneratesAgain ==
    /\ Len(summarize_call) = 1
    /\ Undisturbed(summarize_call[1])
    /\ summarize_call[1].entry # <<>>
    /\ summarize_call[1].entry[1].summary = <<>>
    /\ summarize_call[1].summary = <<(<<"S">>)>>

\* A call that was served from the cache file of its text and level.
ServedFromCache(call) ==
    /\ call.entry # <<>>
    /\ call.raised = None
    /\ ApiCalls(call) = {}

\* C21: whatever summarize and set_detail_level calls came before, a call of
\* summarize at level L that is served from the cache returns an entry that
\* was stored while the level was L, and set_detail_level with a value that
\* is no key of PROMPTS raises and leaves the level as it was, while a key of
\* PROMPTS becomes the level.
C21_HitsKeepDetailLevel ==
    /\ (Len(summarize_call) = 1 /\ ServedFromCache(summarize_call[1])) =>
           /\ summarize_call[1].entry[1].detail_level = summarize_call[1].level
           /\ summarize_call[1].entry[1].hash = Sha256(summarize_call[1].text)
           /\ summarize_call[1].summary = <<summarize_call[1].entry[1].summary>>
    /\ Len(level_call) = 1 =>
           IF level_call[1].requested \in {"short", "normal", "detailed"}
           THEN level_call[1].raised = None /\ detail_level = level_call[1].requested
           ELSE /\ level_call[1].raised = "ValueError"
                /\ detail_level = level_call[1].before

\* C21 happens: after the level went from "normal" to "short", a call is
\* served the entry stored at "short" while the directory also holds another
\* summary of the same text stored at "normal".
C21_Witness ==
    /\ Len(summarize_call) = 1
    /\ ServedFromCache(summarize_call[1])
    /\ summarize_call[1].level = "short"
    /\ \E f \in cache :
          /\ f.complete
          /\ f.hash = Sha256(summarize_call[1].text)
          /\ f.detail_level = "normal"
          /\ f.summary # summarize_call[1].entry[1].summary
          /\ f.summary # <<>>

(***************************************************************************)
(* SpecRetries: summarize of one text under every course of the attempts   *)
(***************************************************************************)

NextRetries == \E env \in SummarizeEnvs : CallSummarize("T1", env)

SpecRetries == Init /\ [][NextRetries]_vars

\* A call that found no summary in the cache ("if cached:" was false).
CacheMiss(call) == call.entry = <<>> \/ call.entry[1].summary = <<>>

\* The attempts that the API answers with a response that has text.
TextAttempts(call) ==
    {i \in 1..MaxRetries :
        call.responses[i].error = None /\ call.responses[i].text # <<>>}

FirstOf(attempts) == CHOOSE i \in attempts : \A j \in attempts : i <= j

\* C22: a summarize call that misses the cache calls the generation API at
\* most max_retries times; it stops at the first attempt whose response has
\* text and returns that text stripped; an attempt that raises and one that
\* returns an empty response are both followed by the next attempt; when
\* every attempt fails it has made exactly max_retries calls and raises
\* SummaryError without writing the cache.
C22_RetriesUntilFirstText ==
    (Len(summarize_call) = 1 /\ CacheMiss(summarize_call[1])) =>
        LET call == summarize_call[1]
            made == Cardinality(ApiCalls(call))
        IN  /\ made <= MaxRetries
            /\ made = Len(call.calls) - Cardinality(CacheWrites(call))
            /\ IF TextAttempts(call) = {}
               THEN /\ made = MaxRetries
                    /\ call.raised = "SummaryError"
                    /\ call.summary = <<>>
                    /\ CacheWrites(call) = {}
                    /\ ~call.wrote
               ELSE /\ made = FirstOf(TextAttempts(call))
                    /\ call.raised = None
                    /\ Len(call.summary) = 1
                    /\ Cardinality(CacheWrites(call)) = 1

\* C22 happens: the first attempt raised, the second returned an empty
\* response, the third returned a text, and the call made three API calls.
C22_Witness ==
    /\ Len(summarize_call) = 1
    /\ CacheMiss(summarize_call[1])
    /\ summarize_call[1].responses[1].error # None
    /\ summarize_call[1].responses[2] = ApiReturns(<<>>)
    /\ TextAttempts(summarize_call[1]) = {MaxRetries}
    /\ Cardinality(ApiCalls(summarize_call[1])) = MaxRetries
    /\ summarize_call[1].raised = None

\* A response without text, or with whitespace only.
Blank(resp) == resp.error = None /\ Strip(resp.text) = <<>>

\* C33: summarize never returns an empty summary and never stores one in the
\* cache: an attempt whose response is empty or whitespace only is followed
\* by the next attempt (or by SummaryError after the last), and a cached
\* entry with an empty summary is a miss.
C33_NeverEmptySummary ==
    /\ \A f \in cache : f.complete => f.summary # <<>>
    /\ Len(summarize_call) = 1 =>
          LET call == summarize_call[1] IN
          /\ call.raised = None => call.summary # <<(<<>>)>>
          /\ \A i \in 1..Cardinality(ApiCalls(call)) :
                Blank(call.responses[i]) =>
                    \/ i < Cardinality(ApiCalls(call))
                    \/ call.raised = "SummaryError"
          /\ (call.entry # <<>> /\ call.entry[1].summary = <<>>) =>
                ApiCalls(call) # {}

\* The case of C33 the code gets wrong: the API answered the first attempt
\* with a blank text; summarize took it for a summary, stored the stripped
\* (empty) text in the cache and returned it.
C33_BlankSummaryReturned ==
    /\ Len(summarize_call) = 1
    /\ summarize_call[1].entry = <<>>
    /\ summarize_call[1].responses[1] = ApiReturns(<<" ">>)
    /\ Cardinality(ApiCalls(summarize_call[1])) = 1
    /\ summarize_call[1].raised = None
    /\ summarize_call[1].summary = <<(<<>>)>>
    /\ \E f \in cache :
          /\ f.complete
          /\ f.hash = Sha256(summarize_call[1].text)
          /\ f.summary = <<>>

\* What the code does keep of C33: a response without any text is a failed
\* attempt, and a cached entry with an empty summary is a miss.
C33_EmptyResponseRejected ==
    Len(summarize_call) = 1 =>
        LET call == summarize_call[1] IN
        /\ \A i \in 1..Cardinality(ApiCalls(call)) :
              (call.responses[i].error = None /\ call.responses[i].text = <<>>) =>
                  \/ i < Cardinality(ApiCalls(call))
                  \/ call.raised = "SummaryError"
        /\ (call.entry # <<>> /\ call.entry[1].summary = <<>>) =>
              ApiCalls(call) # {}

(***************************************************************************)
(* SpecPost: post_thread_reply under every course of its attempts          *)
(***************************************************************************)

\* What Slack does to each attempt of one call.
AttemptSequences == [1..MaxRetries -> AttemptOutcomes]

\* post_call keeps the arguments of the call made last, what Slack did to
\* each attempt, the chat.postMessage calls made and the exception that left.
CallPostThreadReply(channel, thread_ts, text, outcomes) ==
    LET out == PostThreadReply(channel, thread_ts, text, outcomes) IN
    /\ post_call' = <<[channel |-> channel, thread_ts |-> thread_ts, text |-> text,
                       outcomes |-> outcomes, calls |-> out.calls,
                       raised |-> out.raised]>>
    /\ UNCHANGED <<now, processed_events, bot_user_id, request, response, effects,
                   jobs, job_run, verify_result, dedup_call, cache, detail_level,
                   summarize_call, model_name, level_call, format_call, entry_file,
                   threads>>

NextPost ==
    \E channel \in ChannelIds, outcomes \in AttemptSequences :
        CallPostThreadReply(channel, "ts1", SummaryText, outcomes)

SpecPost == Init /\ [][NextPost]_vars

\* The attempts that Slack does not answer with a retried Slack API error.
FinalAttempts(call) ==
    {i \in 1..MaxRetries : call.outcomes[i] # "SlackApiError"}

\* C23: post_thread_reply makes at most max_retries chat.postMessage
\* attempts, all with the arguments of the call; it returns at the first
\* attempt that succeeds; it tries again after a Slack API error other than
\* channel_not_found and not_in_channel; on one of these two it raises
\* SlackError at once; when every attempt fails with a retried error it has
\* made exactly max_retries attempts and raises SlackError.
C23_RetriesUntilSuccessOrPermanentError ==
    Len(post_call) = 1 =>
        LET call == post_call[1]
            made == Len(call.calls)
        IN  /\ made <= MaxRetries
            /\ \A i \in 1..made :
                  /\ call.calls[i].api = "chat_postMessage"
                  /\ call.calls[i].channel = call.channel
                  /\ call.calls[i].ts = call.thread_ts
                  /\ call.calls[i].text = call.text
                  /\ call.calls[i].outcome = call.outcomes[i]
            /\ IF FinalAttempts(call) = {}
               THEN made = MaxRetries /\ call.raised = "SlackError"
               ELSE LET last == FirstOf(FinalAttempts(call)) IN
                    /\ made = last
                    /\ call.outcomes[last] = "ok" => call.raised = None
                    /\ call.outcomes[last] \in {"channel_not_found", "not_in_channel"}
                          => call.raised = "SlackError"

\* C23 happens: two retried errors, then not_in_channel on the third attempt.
C23_Witness ==
    /\ Len(post_call) = 1
    /\ post_call[1].outcomes[1] = "SlackApiError"
    /\ post_call[1].outcomes[2] = "SlackApiError"
    /\ post_call[1].outcomes[3] = "not_in_channel"
    /\ Len(post_call[1].calls) = 3
    /\ post_call[1].raised = "SlackError"

(***************************************************************************)
(* SpecFormat: format_summary_blocks called on summaries around the limit  *)
(***************************************************************************)

\* The lengths of the paragraphs and of the newline runs between them: a
\* single newline leaves two words in one paragraph, two newlines separate
\* two paragraphs, three leave a newline at the head of the next paragraph,
\* four hold an empty paragraph.
WordLengths == {1, 1449, 2897, 2900, 2901}
BreakLengths == {1, 2, 3, 4}

\* Summaries of one, two and three words, and the empty summary.
FormatSummaries ==
    {<<>>}
    \cup {Chars("a", w) : w \in WordLengths}
    \cup {Chars("a", w1) \o Chars("\n", b) \o Chars("b", w2) :
             w1 \in WordLengths, w2 \in WordLengths, b \in BreakLengths}
    \cup {Chars("a", w[1]) \o Chars("\n", b[1]) \o Chars("b", w[2])
             \o Chars("\n", b[2]) \o Chars("c", w[3]) :
             w \in [1..3 -> WordLengths], b \in [1..2 -> BreakLengths]}

\* A file name of 50 characters and one of 51.
FormatFilenames == {Chars("n", FilenameLimit), Chars("n", FilenameLimit + 1)}

\* format_call keeps the arguments of the call and its blocks.  The function
\* reads and writes no state, so one call is made from the initial state.
CallFormatSummaryBlocks(summary, filename) ==
    /\ format_call = <<>>
    /\ format_call' = <<[summary |-> summary, filename |-> filename,
                         blocks |-> FormatSummaryBlocks(summary, filename)]>>
    /\ UNCHANGED <<now, processed_events, bot_user_id, request, response, effects,
                   jobs, job_run, verify_result, dedup_call, cache, detail_level,
                   summarize_call, model_name, level_call, post_call, entry_file,
                   threads>>

NextFormat ==
    \E summary \in FormatSummaries, filename \in FormatFilenames :
        CallFormatSummaryBlocks(summary, filename)

SpecFormat == Init /\ [][NextFormat]_vars

Formatted == Len(format_call) = 1
TheBlocks == format_call[1].blocks
TheSummary == format_call[1].summary

\* The texts of the section blocks, in order.
SectionTexts ==
    LET sections == SelectSeq(TheBlocks, LAMBDA b : b.type = "section")
    IN  [i \in 1..Len(sections) |-> sections[i].text]

\* C25: every section block of every summary holds at most 2900
\* characters, also when a single paragraph is longer than 2900.
C25_SectionsWithinLimit ==
    Formatted => \A i \in 1..Len(SectionTexts) : TextLen(SectionTexts[i]) <= MaxBlockLength

\* The case of C25 the code gets wrong: a summary that is one paragraph of
\* 2901 characters comes out as one section block of 2901 characters.
C25_LongParagraphKeptWhole ==
    /\ Formatted
    /\ TheSummary = Chars("a", MaxBlockLength + 1)
    /\ SectionTexts = <<Chars("a", MaxBlockLength + 1)>>

\* header, divider, one or more sections, divider, footer
WellFramed ==
    LET n == Len(TheBlocks) IN
    /\ n >= 5
    /\ TheBlocks[1].type = "header"
    /\ TheBlocks[2].type = "divider"
    /\ \A i \in 3..(n - 2) : TheBlocks[i].type = "section"
    /\ TheBlocks[n - 1].type = "divider"
    /\ TheBlocks[n].type = "context"

RECURSIVE Flatten(_)
Flatten(seqs) == IF seqs = <<>> THEN <<>> ELSE Head(seqs) \o Flatten(Tail(seqs))

\* The paragraphs of a text as split("\n\n") gives them, and the paragraphs
\* that are not blank without the whitespace around them.
Paragraphs(text) == SplitParagraphs(text)
WrittenParagraphs(text) ==
    LET pieces == Paragraphs(text)
    IN  SelectSeq([i \in 1..Len(pieces) |-> StripText(pieces[i])], LAMBDA q : q # <<>>)

\* The length a chunk of these paragraphs has while it is accumulated: each
\* paragraph with the two-character separator after it.
RECURSIVE Accumulated(_)
Accumulated(group) ==
    IF group = <<>> THEN 0 ELSE TextLen(Head(group)) + 2 + Accumulated(Tail(group))

\* The paragraphs grouped from the left, a new group begun only at a paragraph
\* that the group before it cannot take within the limit.
RECURSIVE Grouped(_, _)
Grouped(paragraphs, group) ==
    IF paragraphs = <<>> THEN <<group>>
    ELSE IF group = <<>>
            \/ Accumulated(group) + TextLen(Head(paragraphs)) + 2 <= MaxBlockLength
    THEN Grouped(Tail(paragraphs), Append(group, Head(paragraphs)))
    ELSE <<group>> \o Grouped(Tail(paragraphs), <<Head(paragraphs)>>)

RECURSIVE GroupText(_)
GroupText(group) ==
    IF group = <<>> THEN <<>>
    ELSE Join(Head(group), Join(Separator, GroupText(Tail(group))))

\* C26 (as the code has it): the output is header, divider, one or more
\* section blocks, divider, footer; the section blocks in order hold every
\* written paragraph of the summary exactly once and in the original order,
\* without the whitespace around it; a summary within the limit is one block,
\* and in a longer one a new block is started only at a paragraph that would
\* take the accumulated chunk over 2900 characters, each paragraph of the
\* chunk counted with the two-character separator after it.
C26_SectionsKeepParagraphs ==
    Formatted =>
        /\ WellFramed
        /\ Flatten([i \in 1..Len(SectionTexts) |-> WrittenParagraphs(SectionTexts[i])])
              = WrittenParagraphs(TheSummary)
        /\ IF TextLen(TheSummary) <= MaxBlockLength
           THEN SectionTexts = <<TheSummary>>
           ELSE LET groups == Grouped(Paragraphs(TheSummary), <<>>)
                IN  SectionTexts = [i \in 1..Len(groups) |-> StripText(GroupText(groups[i]))]

\* C26 happens: of three paragraphs the first two share a block and the third,
\* which would take the chunk over the limit, starts a new one.
C26_Witness ==
    /\ Formatted
    /\ Len(Paragraphs(TheSummary)) = 3
    /\ Len(SectionTexts) = 2
    /\ Len(Paragraphs(SectionTexts[1])) = 2
    /\ Len(Paragraphs(SectionTexts[2])) = 1
    /\ TextLen(SectionTexts[1]) + 2 + TextLen(SectionTexts[2]) > MaxBlockLength

\* C26 as stated: the section blocks reproduce the paragraphs of the summary
\* as they are, and a new block is started only when the block before it,
\* the separator and the next paragraph together exceed 2900 characters.
C26_BlocksFilledToTheLimit ==
    Formatted =>
        /\ WellFramed
        /\ Flatten([i \in 1..Len(SectionTexts) |-> Paragraphs(SectionTexts[i])])
              = Paragraphs(TheSummary)
        /\ \A i \in 1..(Len(SectionTexts) - 1) :
              TextLen(SectionTexts[i]) + 2
                  + TextLen(Head(Paragraphs(SectionTexts[i + 1]))) > MaxBlockLength

(***************************************************************************)
(* SpecCache: concurrent summarize calls on one cache file                 *)
(*                                                                         *)
(* _save_to_cache opens the file with "w", which empties it, and json.dump *)
(* writes into it in place: first the text up to the end of the summary    *)
(* string, at close the closing lines.  The write of a long text reaches   *)
(* the file page by page, and a reader is not held back while it does.     *)
(* entry_file is the file as a sequence of at most three cells: the first  *)
(* page (the header and the start of the summary), the rest of the summary *)
(* string, and the closing lines.                                          *)
(***************************************************************************)

\* The part of the summary of thread t that lies in the first page (1) and
\* behind it (2).
Cell(t, part) == [by |-> t, part |-> part]

\* The closing lines of the JSON text, the same in every file, and the zero
\* bytes of a hole left by a write behind the end of the file.
Closing == [by |-> "json", part |-> 3]
Zeros == [by |-> "hole", part |-> 0]

\* The summary generate_content gives thread t.
Generated(t) == <<Cell(t, 1), Cell(t, 2)>>

\* A write of cells at the place pos of the file, as write() does it: what
\* lies behind the written cells stays, and a gap before them reads as zeros.
WriteAt(file, pos, cell) ==
    [i \in 1..(IF Len(file) > pos THEN Len(file) ELSE pos) |->
        IF i = pos THEN cell
        ELSE IF i <= Len(file) THEN file[i]
        ELSE Zeros]

\* json.load of the text read: it parses if the file holds a first page, the
\* rest of a summary string and the closing lines.
Parses(file) ==
    /\ Len(file) = 3
    /\ file[1].part = 1
    /\ file[2].part = 2
    /\ file[3] = Closing

\* A write() in progress holds the lock of the file against other writes and
\* against open(..., "w").
WriteInProgress == \E u \in Threads : threads[u].pc = "page2"

cache_unchanged ==
    UNCHANGED <<now, processed_events, bot_user_id, request, response, effects,
                jobs, job_run, verify_result, dedup_call, cache, detail_level,
                summarize_call, model_name, level_call, post_call, format_call>>

\* Lines 259-261 and 204-219: the lookup reads the file as it is now.  A text
\* that does not parse is logged and is a miss, after which the API is asked
\* (lines 276-290); a text spliced from two writes may parse or not,
\* depending on where the page ends.
Lookup(t) ==
    /\ threads[t].pc = "start"
    /\ \E valid \in BOOLEAN :
          LET whole == entry_file[1].by = entry_file[2].by
              hit == Parses(entry_file) /\ (whole \/ valid)
          IN  threads' =
                [threads EXCEPT ![t] =
                    IF hit
                    THEN Position("done", <<entry_file[1], entry_file[2]>>, "cache", None)
                    ELSE Position("generated", Generated(t), "api", None)]
    /\ UNCHANGED entry_file
    /\ cache_unchanged

\* Line 228: open(cache_path, "w") empties the file.
OpenForWriting(t) ==
    /\ threads[t].pc = "generated"
    /\ ~WriteInProgress
    /\ entry_file' = <<>>
    /\ threads' = [threads EXCEPT ![t].pc = "page1"]
    /\ cache_unchanged

\* Lines 229-239: the write of the text up to the end of the summary string
\* has reached the first page of the file.
WriteFirstPage(t) ==
    /\ threads[t].pc = "page1"
    /\ ~WriteInProgress
    /\ entry_file' = WriteAt(entry_file, 1, Cell(t, 1))
    /\ threads' = [threads EXCEPT ![t].pc = "page2"]
    /\ cache_unchanged

\* The same write has reached the rest of the summary string.
WriteSecondPage(t) ==
    /\ threads[t].pc = "page2"
    /\ entry_file' = WriteAt(entry_file, 2, Cell(t, 2))
    /\ threads' = [threads EXCEPT ![t].pc = "close"]
    /\ cache_unchanged

\* The end of the with block writes the closing lines; summarize returns the
\* generated summary (line 292).
CloseFile(t) ==
    /\ threads[t].pc = "close"
    /\ ~WriteInProgress
    /\ entry_file' = WriteAt(entry_file, 3, Closing)
    /\ threads' = [threads EXCEPT ![t].pc = "done"]
    /\ cache_unchanged

NextCache ==
    \/ \E t \in Threads : Lookup(t)
    \/ \E t \in Threads : OpenForWriting(t)
    \/ \E t \in Threads : WriteFirstPage(t)
    \/ \E t \in Threads : WriteSecondPage(t)
    \/ \E t \in Threads : CloseFile(t)

SpecCache == Init /\ [][NextCache]_vars

ServedByCache(t) == threads[t].pc = "done" /\ threads[t].source = "cache"

\* C29: a lookup that runs while other jobs store the entry of the same key
\* is a miss or returns the complete summary one of them generated, never a
\* truncated or mixed one, and no exception leaves summarize because of it.
C29_LookupSeesWholeEntries ==
    \A t \in Threads :
        /\ threads[t].raised = None
        /\ ServedByCache(t) => \E u \in Threads : threads[t].summary = Generated(u)

\* The case of C29 the code gets wrong: while the file holds the complete
\* entry of one job, the write of another job, which had opened the file
\* earlier, has replaced only its first page, and a lookup returns a summary
\* that begins with one job's text and ends with the other's.
C29_MixedSummaryServed ==
    \E t \in Threads :
        /\ ServedByCache(t)
        /\ threads[t].summary[1].by # threads[t].summary[2].by
        /\ \E u \in Threads : threads[u].pc = "page2"

(***************************************************************************)
(* SpecModels: the summarizer restarted with another model                 *)
(***************************************************************************)

\* config.gemini_model before and after a change of the configuration
ModelNames == {ModelName, "gemini-1.5-pro"}

\* The process is started again: PaperSummarizer.__init__ with the model and
\* the detail level of the configuration and the same cache directory.
Restart(model) ==
    /\ model_name' = model
    /\ detail_level' = "normal"
    /\ summarize_call' = <<>>
    /\ level_call' = <<>>
    /\ UNCHANGED <<now, processed_events, bot_user_id, request, response, effects,
                   jobs, job_run, verify_result, dedup_call, cache, post_call,
                   format_call, entry_file, threads>>

NextModels ==
    \/ \E text \in PaperTexts, env \in CacheEnvs : CallSummarize(text, env)
    \/ \E model \in ModelNames : Restart(model)

SpecModels == Init /\ [][NextModels]_vars

\* A call that found the complete entry of its text and level with a summary
\* in it, stored by a summarizer of another model.
FoundOtherModelsEntry(call) ==
    /\ call.entry # <<>>
    /\ call.entry[1].summary # <<>>
    /\ call.entry[1].model # call.model

\* C30: a summary stored by a summarizer configured with model A is returned
\* to a summarizer configured with model B on the same cache directory for
\* the same text and level, without a call of model B and without a write.
C30_CacheIgnoresModel ==
    (Len(summarize_call) = 1 /\ FoundOtherModelsEntry(summarize_call[1])) =>
        /\ summarize_call[1].raised = None
        /\ summarize_call[1].summary = <<summarize_call[1].entry[1].summary>>
        /\ ApiCalls(summarize_call[1]) = {}
        /\ ~summarize_call[1].wrote
        /\ \E f \in cache : f = summarize_call[1].entry[1]

\* C30 happens: the summarizer of gemini-1.5-pro is served the summary that
\* gemini-1.5-flash stored.
C30_Witness ==
    /\ Len(summarize_call) = 1
    /\ FoundOtherModelsEntry(summarize_call[1])
    /\ summarize_call[1].model = "gemini-1.5-pro"
    /\ summarize_call[1].entry[1].model = "gemini-1.5-flash"
    /\ summarize_call[1].summary = <<(<<"S">>)>>

(***************************************************************************)
(* SpecDedup: the dedup set under webhook deliveries and calls of          *)
(* should_process_event                                                    *)
(***************************************************************************)

\* Deliveries of files that are no PDF: one file delivered again and again,
\* and files each delivered once.
DedupRequests ==
    {Signed(StartTime, FileSharedText("F3", "C1")),
     Signed(StartTime, FileSharedText(Fresh, "C1"))}

DedupEvents ==
    {MessageEvent("C1", "U1", "m1", "t1"),
     MessageEvent("C1", "U1", None, "t1"),
     MessageEvent("C1", "U1", Fresh, "t1"),
     MessageEvent("C1", "U1", None, None),
     MessageEvent("C1", BotUser, "m1", "t1"),
     MessageEvent("C9", "U1", "m1", "t1")}

\* How far past the cache size the deliveries of a run go.
ExtraDeliveries == 2

\* What auth.test and the set's iteration order allow.  The order matters to a
\* call only when the set is full, auth.test only when the bot id is unknown.
DedupEnvs(events, bot) ==
    [auth : IF bot = None THEN {"ok", "SlackApiError"} ELSE {"ok"},
     keep : IF Size(events) >= MaxCacheSize THEN SUBSET events.named ELSE {events.named}]

Deliver(req) ==
    /\ Size(processed_events) < MaxCacheSize + ExtraDeliveries
    /\ SlackEvents(req)

CallShouldProcessEvent(event) ==
    \E out \in {ShouldProcessEvent(processed_events, bot_user_id, event, env) :
                   env \in DedupEnvs(processed_events, bot_user_id)} :
        /\ dedup_call' = <<[event |-> event, result |-> out.result]>>
        /\ processed_events' = out.events
        /\ bot_user_id' = out.bot
        /\ request' = <<>>
        /\ response' = <<>>
        /\ effects' = NoEffects
        /\ UNCHANGED <<now, jobs, job_run, verify_result, cache, detail_level,
                       summarize_call, direct_vars>>

NextDedup ==
    \/ \E req \in DedupRequests : Deliver(req)
    \/ \E event \in DedupEvents : CallShouldProcessEvent(event)

SpecDedup == Init /\ [][NextDedup]_vars

\* C8: the dedup set never holds more than 1000 identifiers, whatever the
\* deliveries through the webhook and the calls of should_process_event.
C8_DedupSetBounded == Size(processed_events) <= MaxCacheSize

\* The case of C8 the code gets wrong: the webhook handler recorded a file_id
\* in a set that was full.
C8_HandlerOverfills ==
    /\ Handled
    /\ effects.dedup_added
    /\ Size(processed_events) > MaxCacheSize

\* The event is one should_process_event deduplicates: watched channel, a user
\* other than the bot, an identifier.
Deduplicated(event) ==
    /\ event.channel \in ChannelIds
    /\ event.user # BotUser
    /\ event.client_msg_id # None \/ event.event_ts # None

\* C9: of two calls of should_process_event in a row with the same event, the
\* first returns True when the event is new to the set and the second returns
\* False, also when the first call trims the set.  (Two calls with a Fresh
\* identifier are calls with two different events.)
C9_SecondCallReturnsFalse ==
    [][/\ (/\ Len(dedup_call') = 1
           /\ Deduplicated(dedup_call'[1].event)
           /\ dedup_call'[1].result.raised = None
           /\ LET e == dedup_call'[1].event
              IN  ~Has(processed_events,
                       IF e.client_msg_id # None THEN e.client_msg_id ELSE e.event_ts))
          => dedup_call'[1].result = Returned(TRUE)
       /\ (/\ Len(dedup_call) = 1
           /\ Len(dedup_call') = 1
           /\ dedup_call'[1].event = dedup_call[1].event
           /\ dedup_call[1].event.client_msg_id # Fresh
           /\ Deduplicated(dedup_call[1].event)
           /\ dedup_call[1].result = Returned(TRUE))
          => dedup_call'[1].result = Returned(FALSE)
      ]_vars

\* The case of C9 the code gets wrong: a call returned True and left a set
\* that does not hold the event's identifier.
C9_NewEventEvicted ==
    /\ Len(dedup_call) = 1
    /\ dedup_call[1].event = MessageEvent("C1", "U1", "m1", "t1")
    /\ dedup_call[1].result = Returned(TRUE)
    /\ ~Has(processed_events, "m1")

====
